---- MODULE Spec2Model ----
(***************************************************************************)
(* A state-machine model of the snooker sketch (p5.js + Matter.js).        *)
(*                                                                         *)
(* The program is single threaded: p5 calls one handler at a time          *)
(* (mousePressed, mouseDragged, mouseReleased, keyPressed, draw) and each  *)
(* runs to completion.  Every handler is an operator from the program      *)
(* state (a record with one field per global of the sketch) to the next    *)
(* state; draw() is split at its calls (Engine.update,                     *)
(* checkPocketCollisions, checkBallsMoving, prediction/drawCue) into steps *)
(* sequenced by pc, and no other handler runs while pc # "idle".           *)
(*                                                                         *)
(* Units.  Lengths are integers in 1/16 pixel, so that ballRadius (6.25),  *)
(* the pocket inset (6.5625) and the capture radius (11.25) are exact.     *)
(* Velocities are in 1/100 pixel per frame (threshold 0.15 = 15).          *)
(* cue.pullBack is in 1/320 pixel (so that the 0.8 and 0.25 sensitivities  *)
(* are exact), spin components are numerators over SpinDen, and            *)
(* frictionAir is in units of 0.001 / (10 * SpinDen).                      *)
(* Distances are compared through their squares: sqrt is monotone and the  *)
(* operands are exact, so a < b is a^2 < b^2.                              *)
(*                                                                         *)
(* Rendering (trails, impact rings, pocket particles, drawing calls) has   *)
(* no effect on the state modelled here and is left out.                   *)
(***************************************************************************)
EXTENDS Integers, Sequences, FiniteSets, TLC

\* ------------------------------------------------------------------------
\* Bounds of the model (not program constants)
\* ------------------------------------------------------------------------
\* number of sampled streams of random() used for the mode 2 / mode 3 racks
NumSeeds == 1
\* the physics engine brings every ball to rest within this many recorded
\* frames of a shot
MaxFlightFrames == 2

\* ------------------------------------------------------------------------
\* Table measurements (initTableMeasurements, initPocketPositions,
\* initBallSpots)
\* ------------------------------------------------------------------------
Scale == 16

canvasWidth == 1100 * Scale
canvasHeight == 700 * Scale
tableLength == 900 * Scale
tableWidth == tableLength \div 2
cushionThickness == 25 * Scale

tableX == (canvasWidth - tableLength) \div 2
tableY == (canvasHeight - tableWidth) \div 2
playAreaLength == tableLength - (cushionThickness * 2)
playAreaWidth == tableWidth - (cushionThickness * 2)
ballDiameter == tableWidth \div 36
ballRadius == ballDiameter \div 2
pocketSize == (ballDiameter * 15) \div 10
dRadius == (playAreaWidth * 26) \div 100
dCenterX == tableX + tableLength \div 2

innerLeft == tableX + cushionThickness
innerRight == tableX + tableLength - cushionThickness
innerTop == tableY + cushionThickness
innerBottom == tableY + tableWidth - cushionThickness
playHeight == tableWidth - cushionThickness * 2
baulkY == innerBottom - (playHeight * 2) \div 10

pocketOffset == (pocketSize * 35) \div 100
pocketPositions ==
    << <<tableX + pocketOffset, tableY + pocketOffset>>,
       <<tableX + tableLength - pocketOffset, tableY + pocketOffset>>,
       <<tableX + pocketOffset, tableY + tableWidth - pocketOffset>>,
       <<tableX + tableLength - pocketOffset, tableY + tableWidth - pocketOffset>>,
       <<tableX + tableLength \div 2, tableY>>,
       <<tableX + tableLength \div 2, tableY + tableWidth>> >>

\* pocketRadius of checkPocketCollisions: pocketSize * 0.6
pocketRadius == (pocketSize * 6) \div 10

Colours == <<"yellow", "green", "brown", "blue", "pink", "black">>
ColourSet == {Colours[i] : i \in 1..Len(Colours)}
Labels == ColourSet \cup {"cueBall", "red"}

spotPositions ==
    [c \in ColourSet \cup {"cueBall"} |->
        CASE c = "yellow" -> <<dCenterX - dRadius, baulkY>>
          [] c = "green"  -> <<dCenterX + dRadius, baulkY>>
          [] c = "brown"  -> <<dCenterX, baulkY>>
          [] c = "blue"   -> <<dCenterX, innerTop + playHeight \div 2>>
          [] c = "pink"   -> <<dCenterX, innerTop + (playHeight * 25) \div 100>>
          [] c = "black"  -> <<dCenterX, innerTop + (playHeight * 8) \div 100>>
          [] c = "cueBall" -> <<dCenterX - dRadius \div 2, baulkY>>]

\* squared Euclidean distance of two points
Dist2(a, b) == (a[1] - b[1]) * (a[1] - b[1]) + (a[2] - b[2]) * (a[2] - b[2])

\* ------------------------------------------------------------------------
\* Program constants
\* ------------------------------------------------------------------------
maxPullBack == 120 * 320
minPullBack == 5 * 320
uiRadius == 35 * Scale
spinUiX == canvasWidth - 60 * Scale
spinUiY == canvasHeight - 60 * Scale
SpinDen == uiRadius
BALL_FRICTION_AIR == 10 * SpinDen
threshold == 15
maxFrames == 180
RedCount == 15

NULL == <<>>

\* a Matter.js body as far as the sketch reads or writes it; force counts
\* the forces applied since the last Engine.update; ord is the rack ordinal
\* of a red (0 for the other balls)
NewBody(label, pos, ord) ==
    [label |-> label, pos |-> pos, vel |-> <<0, 0>>,
     frictionAir |-> BALL_FRICTION_AIR, force |-> 0, ord |-> ord]

VARIABLES
    pc,                 \* position inside draw(): idle, capture, settle, predict
    currentMode,
    cueBallPlaced,
    isShooting,
    canShoot,
    cue,                \* [angle, pullBack, isAiming, dragStart]
    spinControl,        \* [x, y, isDragging]
    trajectoryPreview,  \* [enabled, points, ghostBall, collisionBalls]
    replaySystem,       \* [recording, frames, oldest, playbackIndex, showReplay]
    cueBall,            \* NULL or <<body>>
    redBalls,           \* sequence of bodies
    colouredBalls,      \* colour -> body
    world               \* label -> number of bodies of that label in the world

vars == <<pc, currentMode, cueBallPlaced, isShooting, canShoot, cue,
          spinControl, trajectoryPreview, replaySystem, cueBall, redBalls,
          colouredBalls, world>>

\* the program state as one record, and its assignment
St ==
    [currentMode |-> currentMode, cueBallPlaced |-> cueBallPlaced,
     isShooting |-> isShooting, canShoot |-> canShoot, cue |-> cue,
     spinControl |-> spinControl, trajectoryPreview |-> trajectoryPreview,
     replaySystem |-> replaySystem, cueBall |-> cueBall,
     redBalls |-> redBalls, colouredBalls |-> colouredBalls, world |-> world]

Set(s) ==
    /\ currentMode' = s.currentMode
    /\ cueBallPlaced' = s.cueBallPlaced
    /\ isShooting' = s.isShooting
    /\ canShoot' = s.canShoot
    /\ cue' = s.cue
    /\ spinControl' = s.spinControl
    /\ trajectoryPreview' = s.trajectoryPreview
    /\ replaySystem' = s.replaySystem
    /\ cueBall' = s.cueBall
    /\ redBalls' = s.redBalls
    /\ colouredBalls' = s.colouredBalls
    /\ world' = s.world

\* ------------------------------------------------------------------------
\* Ball creation and rack setup
\* ------------------------------------------------------------------------
WorldAdd(w, label, n) == [w EXCEPT ![label] = @ + n]
WorldRemove(w, label, n) == [w EXCEPT ![label] = @ - n]

\* random(lo, hi) of p5: lo + u * (hi - lo) with u in [0, 1).  The i-th draw
\* of a rack setup is taken from a sampled stream chosen by seed.
RandDen == 16 * 2
Rand(seed, i) == (seed * 11 + i * 13 + (i \div 3) * 7) % RandDen
random(lo, hi, u) == lo + ((hi - lo) * u) \div RandDen
constrain(v, lo, hi) == IF v < lo THEN lo ELSE IF v > hi THEN hi ELSE v

createCueBall(s, p) ==
    [s EXCEPT !.cueBall = <<NewBody("cueBall", p, 0)>>,
              !.world = WorldAdd(@, "cueBall", 1),
              !.cueBallPlaced = TRUE]

createColouredBalls(s) ==
    [s EXCEPT !.colouredBalls = [c \in ColourSet |-> NewBody(c, spotPositions[c], 0)],
              !.world = [l \in Labels |-> IF l \in ColourSet THEN @[l] + 1 ELSE @[l]]]

\* mutation of clearRedBalls: the bodies leave the world, the list is kept
clearRedBallsKeepList(s) ==
    [s EXCEPT !.world = WorldRemove(@, "red", Len(s.redBalls))]

clearRedBalls(s) ==
    [s EXCEPT !.world = WorldRemove(@, "red", Len(s.redBalls)),
              !.redBalls = <<>>]

\* the reds given as a sequence of positions, pushed and added to the world
PushReds(s, positions) ==
    [s EXCEPT !.redBalls = @ \o [k \in 1..Len(positions) |->
                                    NewBody("red", positions[k], Len(s.redBalls) + k)],
              !.world = WorldAdd(@, "red", Len(positions))]

\* row (0-based) of the k-th ball of the triangle: rows of 1, 2, 3, 4, 5
TriangleRow(k) ==
    CHOOSE r \in 0..4 : (r * (r + 1)) \div 2 < k /\ k <= ((r + 1) * (r + 2)) \div 2

\* the positions createRedTriangle pushes, in order
TrianglePositions ==
    LET startX == spotPositions["pink"][1]
        startY == spotPositions["pink"][2] - (ballDiameter * 15) \div 10
        Pos(k) ==
            LET row == TriangleRow(k)
                col == k - 1 - (row * (row + 1)) \div 2
                rowY == startY - (row * ballDiameter * 9) \div 10
                rowStartX == startX - (row * ballRadius)
            IN  <<rowStartX + (col * ballDiameter), rowY>>
    IN  [k \in 1..RedCount |-> Pos(k)]

createRedTriangle(s) == PushReds(s, TrianglePositions)

\* the positions createRedClusters pushes, in order, for each sampled stream
ClusterPositions ==
    LET il == tableX + cushionThickness + pocketSize
        ir == tableX + tableLength - cushionThickness - pocketSize
        it == tableY + cushionThickness + pocketSize
        ib == tableY + tableWidth - cushionThickness - pocketSize
        ballsPerCluster == 5
        \* draws: per cluster clusterX, clusterY, then offsetX, offsetY per ball
        Pos(seed, k) ==
            LET cluster == (k - 1) \div ballsPerCluster
                b == (k - 1) % ballsPerCluster
                base == cluster * (2 + 2 * ballsPerCluster)
                clusterX == random(il + 50 * Scale, ir - 50 * Scale, Rand(seed, base))
                clusterY == random(it + 30 * Scale, ib - 30 * Scale, Rand(seed, base + 1))
                offsetX == random(-(ballDiameter * 2), ballDiameter * 2,
                                  Rand(seed, base + 2 + 2 * b))
                offsetY == random(-(ballDiameter * 2), ballDiameter * 2,
                                  Rand(seed, base + 3 + 2 * b))
            IN  <<constrain(clusterX + offsetX, il, ir),
                  constrain(clusterY + offsetY, it, ib)>>
    IN  [seed \in 1..NumSeeds |-> [k \in 1..(3 * ballsPerCluster) |-> Pos(seed, k)]]

createRedClusters(s, seed) == PushReds(s, ClusterPositions[seed])

isTooCloseToSpot(p) ==
    LET minDistance == ballDiameter * 2
    IN  \E c \in ColourSet : Dist2(p, spotPositions[c]) < minDistance * minDistance

\* the "fill remaining balls" loop of createPracticeReds, from draw i on
RECURSIVE PracticeFill(_, _, _, _)
PracticeFill(positions, seed, i, box) ==
    IF Len(positions) >= RedCount THEN positions
    ELSE LET randX == random(box[1], box[2], Rand(seed, i))
             randY == random(box[3], box[4], Rand(seed, i + 1))
         IN  IF ~isTooCloseToSpot(<<randX, randY>>)
             THEN PracticeFill(Append(positions, <<randX, randY>>), seed, i + 2, box)
             ELSE PracticeFill(positions, seed, i + 2, box)

\* the grid loop of createPracticeReds, from cell k (0-based, row major) on
RECURSIVE PracticeGrid(_, _, _, _)
PracticeGrid(positions, seed, k, box) ==
    LET cols == 5
        rows == 3
        spacingX == (box[2] - box[1]) \div (cols + 1)
        spacingY == (box[4] - box[3]) \div (rows + 1)
        row == k \div cols
        col == k % cols
        baseX == box[1] + spacingX * (col + 1)
        baseY == box[3] + spacingY * (row + 1)
        ballX == baseX + random(-ballDiameter, ballDiameter, Rand(seed, 2 * k))
        ballY == baseY + random(-ballDiameter, ballDiameter, Rand(seed, 2 * k + 1))
    IN  IF k >= rows * cols \/ Len(positions) >= RedCount THEN positions
        ELSE IF ~isTooCloseToSpot(<<ballX, ballY>>)
             THEN PracticeGrid(Append(positions, <<ballX, ballY>>), seed, k + 1, box)
             ELSE PracticeGrid(positions, seed, k + 1, box)

\* the positions createPracticeReds pushes, in order, for each sampled stream
PracticePositions ==
    LET box == <<tableX + cushionThickness + ballDiameter,
                 tableX + tableLength - cushionThickness - ballDiameter,
                 tableY + cushionThickness + ballDiameter,
                 tableY + tableWidth - cushionThickness - ballDiameter>>
    IN  [seed \in 1..NumSeeds |->
            PracticeFill(PracticeGrid(<<>>, seed, 0, box), seed, 30, box)]

createPracticeReds(s, seed) == PushReds(s, PracticePositions[seed])

createRedBallsByMode(s, mode, seed) ==
    LET c == clearRedBalls(s)
    IN  IF mode = 1 THEN createRedTriangle(c)
        ELSE IF mode = 2 THEN createRedClusters(c, seed)
        ELSE IF mode = 3 THEN createPracticeReds(c, seed)
        ELSE c

createBalls(s, seed) ==
    createRedBallsByMode(
        createColouredBalls([s EXCEPT !.cueBallPlaced = FALSE, !.cueBall = NULL]),
        s.currentMode, seed)

\* mutation of resetAllBalls: the aim lock is left as it is
resetAllBallsKeepLock(s, seed) ==
    LET a == clearRedBalls(s)
        b == IF a.cueBall # NULL
             THEN [a EXCEPT !.world = WorldRemove(@, "cueBall", 1), !.cueBall = NULL]
             ELSE a
        c == [b EXCEPT !.world = [l \in Labels |->
                                    IF l \in ColourSet THEN @[l] - 1 ELSE @[l]]]
        d == [c EXCEPT !.cueBallPlaced = FALSE,
                       !.cue.pullBack = 0]
    IN  createRedBallsByMode(createColouredBalls(d), d.currentMode, seed)

resetAllBalls(s, seed) ==
    LET a == clearRedBalls(s)
        b == IF a.cueBall # NULL
             THEN [a EXCEPT !.world = WorldRemove(@, "cueBall", 1), !.cueBall = NULL]
             ELSE a
        c == [b EXCEPT !.world = [l \in Labels |->
                                    IF l \in ColourSet THEN @[l] - 1 ELSE @[l]]]
        d == [c EXCEPT !.cueBallPlaced = FALSE,
                       !.cue.isAiming = FALSE,
                       !.cue.pullBack = 0]
    IN  createRedBallsByMode(createColouredBalls(d), d.currentMode, seed)

\* ------------------------------------------------------------------------
\* Numeric helpers
\* ------------------------------------------------------------------------
RECURSIVE Gcd(_, _)
Gcd(a, b) ==
    IF b = 0 THEN a
    ELSE CHOOSE out \in {Gcd(v[1], v[2]) : v \in {<<b, a % b>>}} : TRUE
Abs(a) == IF a < 0 THEN -a ELSE a

\* atan2(dy, dx): the angle is kept as the direction it denotes, the
\* primitive integer vector along (dx, dy); two angles are equal exactly
\* when these vectors are.  atan2(0, 0) is 0, the direction <<1, 0>>.
atan2(dy, dx) ==
    IF dx = 0 /\ dy = 0 THEN <<1, 0>>
    ELSE LET g == Gcd(Abs(dx), Abs(dy)) IN <<dx \div g, dy \div g>>

\* floor of the square root
RECURSIVE SqrtSearch(_, _, _)
SqrtSearch(n, lo, hi) ==
    IF lo >= hi THEN lo
    ELSE CHOOSE out \in
             {IF mid * mid <= n THEN SqrtSearch(n, mid, hi)
              ELSE SqrtSearch(n, lo, mid - 1) :
                 mid \in {(lo + hi + 1) \div 2}} : TRUE
sqrt(n) == SqrtSearch(n, 0, 2 * canvasWidth)
min(a, b) == IF a < b THEN a ELSE b

\* A local variable of the code that is read more than once is bound as the
\* element of a one-element set, CHOOSE out \in {e(x) : x \in {v}} : TRUE,
\* so that its value v is computed once.

\* ------------------------------------------------------------------------
\* Spin control and replay
\* ------------------------------------------------------------------------
isInsideSpinControl(m) ==
    Dist2(m, <<spinUiX, spinUiY>>) <= uiRadius * uiRadius

\* mutation of updateSpinFromMouse: the offsets are not constrained
updateSpinFromMouseUnconstrained(s, m) ==
    [s EXCEPT !.spinControl.x = m[1] - spinUiX,
              !.spinControl.y = m[2] - spinUiY]

updateSpinFromMouse(s, m) ==
    [s EXCEPT !.spinControl.x = constrain(m[1] - spinUiX, -SpinDen, SpinDen),
              !.spinControl.y = constrain(m[2] - spinUiY, -SpinDen, SpinDen)]

startRecording(s) ==
    [s EXCEPT !.replaySystem.recording = TRUE, !.replaySystem.frames = 0,
              !.replaySystem.oldest = 1]

stopRecording(s) == [s EXCEPT !.replaySystem.recording = FALSE]

\* mutation of recordReplayFrame: a full buffer is not shifted
recordReplayFrameNoShift(s) ==
    [s EXCEPT !.replaySystem.frames = @ + 1]

\* frames is the length of replaySystem.frames; the frames of a recording
\* are numbered from 1 in the order they are pushed, and oldest is the number
\* of frames[0] (of the next frame to be pushed while the array is empty), so
\* that the array holds the frames oldest .. oldest + frames - 1
recordReplayFrame(s) ==
    LET shifted == IF s.replaySystem.frames >= maxFrames
                   THEN [s EXCEPT !.replaySystem.frames = @ - 1,
                                  !.replaySystem.oldest = @ + 1]
                   ELSE s
    IN  [shifted EXCEPT !.replaySystem.frames = @ + 1]

\* playbackIndex is in quarter frames (playbackSpeed 0.25)
drawReplayFrame(s) ==
    IF s.replaySystem.frames = 0
    THEN [s EXCEPT !.replaySystem.showReplay = FALSE]
    ELSE LET a == [s EXCEPT !.replaySystem.playbackIndex = @ + 1]
         IN  IF a.replaySystem.playbackIndex >= 4 * a.replaySystem.frames
             THEN [a EXCEPT !.replaySystem.showReplay = FALSE,
                            !.replaySystem.playbackIndex = 0]
             ELSE a

\* mutation of toggleReplay: the replay is toggled during a shot too
toggleReplayAnyTime(s) ==
    IF s.replaySystem.frames > 0
    THEN [s EXCEPT !.replaySystem.showReplay = ~@,
                   !.replaySystem.playbackIndex = 0]
    ELSE s

toggleReplay(s) ==
    IF s.replaySystem.frames > 0 /\ ~s.isShooting
    THEN [s EXCEPT !.replaySystem.showReplay = ~@,
                   !.replaySystem.playbackIndex = 0]
    ELSE s

\* ------------------------------------------------------------------------
\* Placement checks
\* ------------------------------------------------------------------------
\* mutation of isInDZone: the baulk-line test taken on the wrong side
isInDZoneAboveBaulk(m) ==
    IF m[2] > baulkY THEN FALSE
    ELSE IF m[2] > innerBottom THEN FALSE
    ELSE IF Dist2(m, <<dCenterX, baulkY>>) <= dRadius * dRadius
         THEN m[1] >= innerLeft /\ m[1] <= innerRight
         ELSE FALSE

isInDZone(m) ==
    IF m[2] < baulkY THEN FALSE
    ELSE IF m[2] > innerBottom THEN FALSE
    ELSE IF Dist2(m, <<dCenterX, baulkY>>) <= dRadius * dRadius
         THEN m[1] >= innerLeft /\ m[1] <= innerRight
         ELSE FALSE

\* mutation of isOverlappingBall: the coloured balls are not looked at
isOverlappingBallRedsOnly(s, m) ==
    LET checkRadius == ballDiameter
    IN  \E i \in 1..Len(s.redBalls) :
            Dist2(m, s.redBalls[i].pos) < checkRadius * checkRadius

isOverlappingBall(s, m) ==
    LET checkRadius == ballDiameter
    IN  \/ \E c \in ColourSet :
              Dist2(m, s.colouredBalls[c].pos) < checkRadius * checkRadius
        \/ \E i \in 1..Len(s.redBalls) :
              Dist2(m, s.redBalls[i].pos) < checkRadius * checkRadius

\* ------------------------------------------------------------------------
\* Input handlers
\* ------------------------------------------------------------------------
\* mutation of keyPressed: the R key acts during a shot too
keyPressedResetInFlight(s, key, seed) ==
    LET a == IF key = "1" THEN resetAllBalls([s EXCEPT !.currentMode = 1], seed)
             ELSE IF key = "2" THEN resetAllBalls([s EXCEPT !.currentMode = 2], seed)
             ELSE IF key = "3" THEN resetAllBalls([s EXCEPT !.currentMode = 3], seed)
             ELSE s
        b == IF key = "r" /\ a.cueBall # NULL
             THEN [a EXCEPT !.world = WorldRemove(@, "cueBall", 1),
                            !.cueBall = NULL,
                            !.cueBallPlaced = FALSE,
                            !.cue.isAiming = FALSE,
                            !.cue.pullBack = 0]
             ELSE a
        c == IF key = " " THEN toggleReplay(b) ELSE b
        d == IF key = "c" THEN [c EXCEPT !.spinControl.x = 0, !.spinControl.y = 0]
             ELSE c
    IN  IF key = "t" THEN [d EXCEPT !.trajectoryPreview.enabled = ~@] ELSE d

keyPressed(s, key, seed) ==
    LET a == IF key = "1" THEN resetAllBalls([s EXCEPT !.currentMode = 1], seed)
             ELSE IF key = "2" THEN resetAllBalls([s EXCEPT !.currentMode = 2], seed)
             ELSE IF key = "3" THEN resetAllBalls([s EXCEPT !.currentMode = 3], seed)
             ELSE s
        b == IF key = "r" /\ a.cueBall # NULL /\ ~a.isShooting
             THEN [a EXCEPT !.world = WorldRemove(@, "cueBall", 1),
                            !.cueBall = NULL,
                            !.cueBallPlaced = FALSE,
                            !.cue.isAiming = FALSE,
                            !.cue.pullBack = 0]
             ELSE a
        c == IF key = " " THEN toggleReplay(b) ELSE b
        d == IF key = "c" THEN [c EXCEPT !.spinControl.x = 0, !.spinControl.y = 0]
             ELSE c
    IN  IF key = "t" THEN [d EXCEPT !.trajectoryPreview.enabled = ~@] ELSE d

\* mutation of mousePressed: the aim is taken without the canShoot test
mousePressedAnyTime(s, m) ==
    IF isInsideSpinControl(m)
    THEN updateSpinFromMouse([s EXCEPT !.spinControl.isDragging = TRUE], m)
    ELSE IF ~s.cueBallPlaced
    THEN IF isInDZone(m) /\ ~isOverlappingBall(s, m)
         THEN createCueBall(s, m)
         ELSE s
    ELSE IF s.cueBallPlaced /\ s.cueBall # NULL
    THEN [s EXCEPT !.cue.angle = atan2(m[2] - s.cueBall[1].pos[2],
                                       m[1] - s.cueBall[1].pos[1]),
                   !.cue.dragStart = m,
                   !.cue.isAiming = TRUE,
                   !.cue.pullBack = 0]
    ELSE s

mousePressed(s, m) ==
    IF isInsideSpinControl(m)
    THEN updateSpinFromMouse([s EXCEPT !.spinControl.isDragging = TRUE], m)
    ELSE IF ~s.cueBallPlaced
    THEN IF isInDZone(m) /\ ~isOverlappingBall(s, m)
         THEN createCueBall(s, m)
         ELSE s
    ELSE IF s.cueBallPlaced /\ s.canShoot /\ s.cueBall # NULL
    THEN [s EXCEPT !.cue.angle = atan2(m[2] - s.cueBall[1].pos[2],
                                       m[1] - s.cueBall[1].pos[1]),
                   !.cue.dragStart = m,
                   !.cue.isAiming = TRUE,
                   !.cue.pullBack = 0]
    ELSE s

\* mutation of mouseDragged: the pull-back is not clamped to maxPullBack
mouseDraggedUnclamped(s, m, shift) ==
    IF s.spinControl.isDragging THEN updateSpinFromMouse(s, m)
    ELSE IF s.cue.isAiming /\ s.cueBall # NULL
    THEN [s EXCEPT !.cue.pullBack =
             sqrt(Dist2(m, s.cue.dragStart)) * (IF shift THEN 5 ELSE 16)]
    ELSE s

\* shift is keyIsDown(SHIFT); dragDistance is in 1/16 pixel and pullBack in
\* 1/320 pixel, so the sensitivities 0.8 and 0.25 are the factors 16 and 5
mouseDragged(s, m, shift) ==
    IF s.spinControl.isDragging THEN updateSpinFromMouse(s, m)
    ELSE IF s.cue.isAiming /\ s.cueBall # NULL
    THEN LET dragDistance == sqrt(Dist2(m, s.cue.dragStart))
             sensitivity == IF shift THEN 5 ELSE 16
         IN  [s EXCEPT !.cue.pullBack = min(maxPullBack, dragDistance * sensitivity)]
    ELSE s

shootCueBall(s) ==
    [s EXCEPT !.cueBall[1].frictionAir = BALL_FRICTION_AIR + 3 * s.spinControl.y,
              !.cueBall[1].force = @ + 1,
              !.isShooting = TRUE,
              !.canShoot = FALSE]

\* mutation of mouseReleased: a pull-back of exactly the minimum fires
mouseReleasedAtMinimum(s) ==
    IF s.spinControl.isDragging
    THEN [s EXCEPT !.spinControl.isDragging = FALSE]
    ELSE LET a == IF s.cue.isAiming /\ s.cueBall # NULL /\ s.cue.pullBack >= minPullBack
                  THEN shootCueBall(startRecording(s))
                  ELSE s
         IN  [a EXCEPT !.cue.isAiming = FALSE, !.cue.pullBack = 0]

mouseReleased(s) ==
    IF s.spinControl.isDragging
    THEN [s EXCEPT !.spinControl.isDragging = FALSE]
    ELSE LET a == IF s.cue.isAiming /\ s.cueBall # NULL /\ s.cue.pullBack > minPullBack
                  THEN shootCueBall(startRecording(s))
                  ELSE s
         IN  [a EXCEPT !.cue.isAiming = FALSE, !.cue.pullBack = 0]

\* ------------------------------------------------------------------------
\* Frame steps
\* ------------------------------------------------------------------------
\* mutation of InPocket: the capture circle taken with its boundary
InPocketInclusive(p) ==
    \E k \in 1..Len(pocketPositions) :
        Dist2(p, pocketPositions[k]) <= pocketRadius * pocketRadius

InPocket(p) ==
    \E k \in 1..Len(pocketPositions) :
        Dist2(p, pocketPositions[k]) < pocketRadius * pocketRadius

\* mutation of Respot: the velocity is not reset
RespotMoving(ball) == [ball EXCEPT !.pos = spotPositions[ball.label]]

Respot(ball) == [ball EXCEPT !.pos = spotPositions[ball.label], !.vel = <<0, 0>>]

\* mutation of checkPocketCollisions: cueBallPlaced is left set
checkPocketCollisionsKeepFlag(s) ==
    LET a == IF s.cueBall # NULL /\ InPocket(s.cueBall[1].pos)
             THEN [s EXCEPT !.world = WorldRemove(@, "cueBall", 1),
                            !.cueBall = NULL]
             ELSE s
        kept == SelectSeq(a.redBalls, LAMBDA b : ~InPocket(b.pos))
        b == [a EXCEPT !.world = WorldRemove(@, "red", Len(a.redBalls) - Len(kept)),
                       !.redBalls = kept]
    IN  [b EXCEPT !.colouredBalls =
            [c \in ColourSet |-> IF InPocket(@[c].pos) THEN Respot(@[c]) ELSE @[c]]]

\* mutation of checkPocketCollisions: a captured colour leaves the world, as a
\* red does
checkPocketCollisionsDropColour(s) ==
    LET a == IF s.cueBall # NULL /\ InPocket(s.cueBall[1].pos)
             THEN [s EXCEPT !.world = WorldRemove(@, "cueBall", 1),
                            !.cueBall = NULL,
                            !.cueBallPlaced = FALSE]
             ELSE s
        kept == SelectSeq(a.redBalls, LAMBDA b : ~InPocket(b.pos))
        b == [a EXCEPT !.world = WorldRemove(@, "red", Len(a.redBalls) - Len(kept)),
                       !.redBalls = kept]
    IN  [b EXCEPT !.world =
            [l \in Labels |-> IF l \in ColourSet /\ InPocket(b.colouredBalls[l].pos)
                              THEN 0 ELSE @[l]]]

checkPocketCollisions(s) ==
    LET a == IF s.cueBall # NULL /\ InPocket(s.cueBall[1].pos)
             THEN [s EXCEPT !.world = WorldRemove(@, "cueBall", 1),
                            !.cueBall = NULL,
                            !.cueBallPlaced = FALSE]
             ELSE s
        kept == SelectSeq(a.redBalls, LAMBDA b : ~InPocket(b.pos))
        b == [a EXCEPT !.world = WorldRemove(@, "red", Len(a.redBalls) - Len(kept)),
                       !.redBalls = kept]
    IN  [b EXCEPT !.colouredBalls =
            [c \in ColourSet |-> IF InPocket(@[c].pos) THEN Respot(@[c]) ELSE @[c]]]

Speed2(ball) == ball.vel[1] * ball.vel[1] + ball.vel[2] * ball.vel[2]

\* mutation of anyMoving: a ball at exactly the threshold counts as moving
anyMovingInclusive(s) ==
    \/ s.cueBall # NULL /\ Speed2(s.cueBall[1]) >= threshold * threshold
    \/ \E i \in 1..Len(s.redBalls) : Speed2(s.redBalls[i]) >= threshold * threshold
    \/ \E c \in ColourSet : Speed2(s.colouredBalls[c]) >= threshold * threshold

anyMoving(s) ==
    \/ s.cueBall # NULL /\ Speed2(s.cueBall[1]) > threshold * threshold
    \/ \E i \in 1..Len(s.redBalls) : Speed2(s.redBalls[i]) > threshold * threshold
    \/ \E c \in ColourSet : Speed2(s.colouredBalls[c]) > threshold * threshold

\* mutation of checkBallsMoving: isShooting follows the motion both ways
checkBallsMovingTracksMotion(s) ==
    IF anyMoving(s)
    THEN [s EXCEPT !.isShooting = TRUE, !.canShoot = FALSE]
    ELSE IF s.isShooting
    THEN stopRecording([s EXCEPT !.isShooting = FALSE, !.canShoot = TRUE])
    ELSE s

checkBallsMoving(s) ==
    IF s.isShooting /\ ~anyMoving(s)
    THEN stopRecording([s EXCEPT !.isShooting = FALSE, !.canShoot = TRUE])
    ELSE s

\* mutation of drawCue: the aim follows the pointer while it is locked too
drawCueAlwaysFollows(s, m) ==
    IF s.cueBall = NULL \/ s.isShooting THEN s
    ELSE [s EXCEPT !.cue.angle = atan2(m[2] - s.cueBall[1].pos[2],
                                       m[1] - s.cueBall[1].pos[1])]

\* drawCue, reached from draw() when cueBallPlaced && canShoot: the aim
\* follows the pointer m while the aim is not locked
drawCue(s, m) ==
    IF s.cueBall = NULL \/ s.isShooting THEN s
    ELSE IF ~s.cue.isAiming
    THEN [s EXCEPT !.cue.angle = atan2(m[2] - s.cueBall[1].pos[2],
                                       m[1] - s.cueBall[1].pos[1])]
    ELSE s

\* ------------------------------------------------------------------------
\* Trajectory prediction
\* ------------------------------------------------------------------------
\* The marched path is kept in 1/Sub of the length unit (1/1600 pixel), so
\* that the sideways shift of a step under side spin (at most 0.045 pixel)
\* is not lost.  A direction is kept as its step: the unit vector times
\* stepSize.  Products are kept below 2^31.
Sub == 100
maxBounces == 3
maxDistance == 800 * Scale * Sub
stepSize == 5 * Scale * Sub

\* integer quotient rounded toward zero
Trunc(n, d) == IF n >= 0 THEN n \div d ELSE -((-n) \div d)

\* <<cos(angle), sin(angle)>> * stepSize.  The direction vector is first
\* scaled up to a length near 30000; the result is exact for axis-parallel
\* and 3-4-5 directions and within one unit otherwise.
DirStep(angle) ==
    LET big == IF Abs(angle[1]) > Abs(angle[2]) THEN Abs(angle[1]) ELSE Abs(angle[2])
        k == IF big >= 30000 THEN 1 ELSE 30000 \div big
        vx == k * angle[1]
        vy == k * angle[2]
    IN  CHOOSE out \in
            {<<Trunc(stepSize * vx, len), Trunc(stepSize * vy, len)>> :
                len \in {SqrtSearch(vx * vx + vy * vy, 0, 46340)}} : TRUE

\* the inset rectangle of calculateTrajectoryPreview
insetLeft == (tableX + cushionThickness + ballRadius) * Sub
insetRight == (tableX + tableLength - cushionThickness - ballRadius) * Sub
insetTop == (tableY + cushionThickness + ballRadius) * Sub
insetBottom == (tableY + tableWidth - cushionThickness - ballRadius) * Sub

\* a path coordinate rounded to the length unit (1/16 pixel)
Coarse(v) == (v + Sub \div 2) \div Sub

getAllBallsExceptCue(s) ==
    s.redBalls \o [i \in 1..Len(Colours) |-> s.colouredBalls[Colours[i]]]

\* mutation of lineCircleCollision: a root is taken when it is not negative,
\* beyond the end of the segment too
lineCircleCollisionWholeRay(p1, p2, centre, radius) ==
    LET dx == p2[1] - p1[1]
        dy == p2[2] - p1[2]
        fx == p1[1] - centre[1]
        fy == p1[2] - centre[2]
        reach == radius + Abs(dx) + Abs(dy)
        a == dx * dx + dy * dy
    IN  IF Abs(fx) > reach \/ Abs(fy) > reach \/ fx * fx + fy * fy > reach * reach
            \/ a = 0
        THEN NULL
        ELSE LET B == fx * dx + fy * dy
                 c == fx * fx + fy * fy - radius * radius
                 D == B * B - a * c
             IN  IF D < 0 THEN NULL
                 ELSE IF B <= 0 /\ c >= 0
                 THEN <<[num |-> -B - SqrtSearch(D, 0, 46340), a |-> a]>>
                 ELSE IF B <= 0 \/ c <= 0
                 THEN <<[num |-> -B + SqrtSearch(D, 0, 46340), a |-> a]>>
                 ELSE NULL

\* lineCircleCollision, on coordinates in the length unit: NULL, or the
\* parameter t of the intersection as the numerator num over a.  With
\* B = b / 2 and D = discriminant / 4 = B^2 - a * c:
\*   t1 = (-B - sqrt(D)) / a,  t2 = (-B + sqrt(D)) / a
\*   t1 >= 0  iff  B <= 0 and c >= 0        t1 <= 1  iff  B + a >= 0 or c + 2B + a <= 0
\*   t2 >= 0  iff  B <= 0 or c <= 0         t2 <= 1  iff  B + a >= 0 and c + 2B + a >= 0
\* A circle farther from the start than radius + |dx| + |dy| (at least the
\* radius plus the segment length) gives a negative discriminant or both t
\* outside [0, 1]; it is answered first.
\* A segment of length 0 gives t = NaN, and no collision.
lineCircleCollision(p1, p2, centre, radius) ==
    LET dx == p2[1] - p1[1]
        dy == p2[2] - p1[2]
        fx == p1[1] - centre[1]
        fy == p1[2] - centre[2]
        reach == radius + Abs(dx) + Abs(dy)
        a == dx * dx + dy * dy
    IN  IF Abs(fx) > reach \/ Abs(fy) > reach \/ fx * fx + fy * fy > reach * reach
            \/ a = 0
        THEN NULL
        ELSE LET B == fx * dx + fy * dy
                 c == fx * fx + fy * fy - radius * radius
                 D == B * B - a * c
             IN  IF D < 0 THEN NULL
                 ELSE IF (B <= 0 /\ c >= 0) /\ (B + a >= 0 \/ c + 2 * B + a <= 0)
                 THEN <<[num |-> -B - SqrtSearch(D, 0, 46340), a |-> a]>>
                 ELSE IF (B <= 0 \/ c <= 0) /\ (B + a >= 0 /\ c + 2 * B + a >= 0)
                 THEN <<[num |-> -B + SqrtSearch(D, 0, 46340), a |-> a]>>
                 ELSE NULL

\* mutation of ClosestHit: the first ball in the order of balls that the
\* segment meets
ClosestHitFirstMet(balls, q1, q2, p1, p2) ==
    LET met == {h \in {<<i, lineCircleCollision(q1, q2, balls[i].pos, ballDiameter)>> :
                           i \in 1..Len(balls)} : h[2] # NULL}
    IN  IF met = {} THEN NULL
        ELSE CHOOSE out \in
                 {<<[ball |-> balls[h[1]], num |-> h[2][1].num,
                     hit |-> <<p1[1] + Trunc((p2[1] - p1[1]) * h[2][1].num, h[2][1].a),
                               p1[2] + Trunc((p2[2] - p1[2]) * h[2][1].num, h[2][1].a)>>]>> :
                     h \in {CHOOSE k \in met : \A j \in met : k[1] <= j[1]}} : TRUE

\* the closest ball the segment from p1 to p2 (path coordinates, q1 and q2
\* in the length unit) meets, the first in the order of balls among equally
\* close ones (all t share the denominator a): NULL or <<[ball, num, hit]>>
ClosestHit(balls, q1, q2, p1, p2) ==
    LET met == {h \in {<<i, lineCircleCollision(q1, q2, balls[i].pos, ballDiameter)>> :
                           i \in 1..Len(balls)} : h[2] # NULL}
    IN  IF met = {} THEN NULL
        ELSE CHOOSE out \in
                 {<<[ball |-> balls[h[1]], num |-> h[2][1].num,
                     hit |-> <<p1[1] + Trunc((p2[1] - p1[1]) * h[2][1].num, h[2][1].a),
                               p1[2] + Trunc((p2[2] - p1[2]) * h[2][1].num, h[2][1].a)>>]>> :
                     h \in {CHOOSE k \in met : \A j \in met :
                                \/ k[2][1].num < j[2][1].num
                                \/ k[2][1].num = j[2][1].num /\ k[1] <= j[1]}} : TRUE

checkTrajectoryBallCollision(s, p1, p2) ==
    CHOOSE out \in
        {ClosestHit(v[1], <<Coarse(v[2][1]), Coarse(v[2][2])>>,
                    <<Coarse(v[3][1]), Coarse(v[3][2])>>, v[2], v[3]) :
            v \in {<<getAllBallsExceptCue(s), p1, p2>>}} : TRUE

\* mutation of calculateDeflectionPaths: the cue ball is deflected to the
\* other side, at atan2(toTarget) - HALF_PI
calculateDeflectionPathsOtherSide(s, hitInfo) ==
    LET target == <<hitInfo.ball.pos[1] * Sub, hitInfo.ball.pos[2] * Sub>>
        toTarget == atan2(target[2] - hitInfo.hit[2], target[1] - hitInfo.hit[1])
    IN  << [start |-> target, dir |-> toTarget, spinEffect |-> 0,
            color |-> hitInfo.ball.label, length |-> 80 * Scale * Sub],
           [start |-> hitInfo.hit, dir |-> <<toTarget[2], -toTarget[1]>>,
            spinEffect |-> 3 * s.spinControl.y,
            color |-> "cueBall", length |-> 50 * Scale * Sub] >>

\* the two deflection paths: the struck ball along the line of centres, the
\* cue ball at atan2(toTarget) + HALF_PI + spinEffect, kept as the direction
\* at HALF_PI and spinEffect = 0.3 * spinControl.y (as 3 * y over 10 * SpinDen)
calculateDeflectionPaths(s, hitInfo) ==
    LET target == <<hitInfo.ball.pos[1] * Sub, hitInfo.ball.pos[2] * Sub>>
        toTarget == atan2(target[2] - hitInfo.hit[2], target[1] - hitInfo.hit[1])
    IN  << [start |-> target, dir |-> toTarget, spinEffect |-> 0,
            color |-> hitInfo.ball.label, length |-> 80 * Scale * Sub],
           [start |-> hitInfo.hit, dir |-> <<-toTarget[2], toTarget[1]>>,
            spinEffect |-> 3 * s.spinControl.y,
            color |-> "cueBall", length |-> 50 * Scale * Sub] >>

\* curveAmount in millionths: spinControl.x * 0.15
CurveOf(s) == Trunc(s.spinControl.x * 150000, SpinDen)

\* perp * curveAmount * 0.3 for the direction step dir, in path units:
\* (-dir[2], dir[1]) / stepSize * curve / 10^6 * 0.3 * Scale * Sub
CurveShift(dir, curve) ==
    <<Trunc(Trunc(-dir[2] * curve, 100000) * 6, 1000),
      Trunc(Trunc(dir[1] * curve, 100000) * 6, 1000)>>

\* mutation of LoopCondition: the distance marched is not looked at
LoopConditionBouncesOnly(r) == r.bounces <= maxBounces

\* the loop condition on the loop variables r
LoopCondition(r) == r.bounces <= maxBounces /\ r.totalDist < maxDistance

\* mutation of CushionClamp: the point is left where it was marched to
CushionClampNone(raw) == raw

\* the next point after the cushion tests
CushionClamp(raw) ==
    <<IF raw[1] < insetLeft THEN insetLeft
      ELSE IF raw[1] > insetRight THEN insetRight ELSE raw[1],
      IF raw[2] < insetTop THEN insetTop
      ELSE IF raw[2] > insetBottom THEN insetBottom ELSE raw[2]>>

\* mutation of CushionReflect: any crossing turns the direction around
CushionReflectBoth(dir, raw) ==
    IF raw[1] < insetLeft \/ raw[1] > insetRight
          \/ raw[2] < insetTop \/ raw[2] > insetBottom
    THEN <<-dir[1], -dir[2]>> ELSE dir

\* mutation of CushionReflect: a component that crossed is stopped
CushionReflectStops(dir, raw) ==
    <<IF raw[1] < insetLeft \/ raw[1] > insetRight THEN 0 ELSE dir[1],
      IF raw[2] < insetTop \/ raw[2] > insetBottom THEN 0 ELSE dir[2]>>

\* the direction after the cushion tests
CushionReflect(dir, raw) ==
    <<IF raw[1] < insetLeft \/ raw[1] > insetRight THEN -dir[1] ELSE dir[1],
      IF raw[2] < insetTop \/ raw[2] > insetBottom THEN -dir[2] ELSE dir[2]>>

\* mutation of CushionBounces: a step counts once, whatever it crosses
CushionBouncesOncePerStep(bounces, raw) ==
    IF raw[1] < insetLeft \/ raw[1] > insetRight
          \/ raw[2] < insetTop \/ raw[2] > insetBottom
    THEN bounces + 1 ELSE bounces

\* the bounce counter after the cushion tests
CushionBounces(bounces, raw) ==
    bounces + (IF raw[1] < insetLeft \/ raw[1] > insetRight THEN 1 ELSE 0)
            + (IF raw[2] < insetTop \/ raw[2] > insetBottom THEN 1 ELSE 0)

\* mutation of BallTestDue: balls are looked for after a bounce too
BallTestDueAnyBounce(bounces, ghostBall) == ghostBall = NULL

\* the condition of the ball test
BallTestDue(bounces, ghostBall) == bounces = 0 /\ ghostBall = NULL

\* One pass of the while loop of calculateTrajectoryPreview on the loop
\* variables r (unchanged once the loop has ended: its condition failed, or
\* the break after a ball was hit).  steps collects, for every pass, what
\* it marched:
\*   from, raw (the next point before the cushion tests), to, dirFrom,
\*   dirTo, bouncesFrom, bouncesTo, tested (the ball test was made), hit
Pass(s, r) ==
    IF r.broke \/ ~LoopCondition(r) THEN r
    ELSE
    LET points == Append(r.points, [x |-> r.current[1], y |-> r.current[2],
                                    bounce |-> r.bounces])
        curved == Abs(r.curve) > 10000
        shift == IF curved THEN CurveShift(r.dir, r.curve) ELSE <<0, 0>>
        raw == <<r.current[1] + r.dir[1] + shift[1],
                 r.current[2] + r.dir[2] + shift[2]>>
        curve == IF curved THEN Trunc(r.curve * 995, 1000) ELSE r.curve
        next == CushionClamp(raw)
        dir == CushionReflect(r.dir, raw)
        bounces == CushionBounces(r.bounces, raw)
        tested == BallTestDue(bounces, r.ghostBall)
        step(hit) == [from |-> r.current, raw |-> raw, to |-> next,
                      dirFrom |-> r.dir, dirTo |-> dir,
                      bouncesFrom |-> r.bounces, bouncesTo |-> bounces,
                      tested |-> tested, hit |-> hit]
    IN  CHOOSE out \in
            {IF hitBall # NULL
             THEN [r EXCEPT !.points = points, !.dir = dir, !.bounces = bounces,
                            !.curve = curve,
                            !.ghostBall = <<[x |-> hitBall[1].hit[1],
                                             y |-> hitBall[1].hit[2],
                                             targetBall |-> hitBall[1].ball]>>,
                            !.collisionBalls = calculateDeflectionPaths(s, hitBall[1]),
                            !.steps = Append(@, step(TRUE)),
                            !.broke = TRUE]
             ELSE [r EXCEPT !.points = points, !.current = next, !.dir = dir,
                            !.bounces = bounces, !.curve = curve,
                            !.totalDist = @ + stepSize,
                            !.steps = Append(@, step(FALSE))] :
                 hitBall \in {IF tested
                              THEN checkTrajectoryBallCollision(s, r.current, next)
                              ELSE NULL}} : TRUE

\* n passes of the loop, n >= 1: the first half, then the second unless the
\* loop has ended
RECURSIVE March(_, _, _)
March(s, r, n) ==
    IF n = 1 THEN CHOOSE out \in {Pass(s, v) : v \in {r}} : TRUE
    ELSE CHOOSE out \in
             {IF v[1].broke \/ ~LoopCondition(v[1]) THEN v[1]
              ELSE March(s, v[1], v[2]) :
                 v \in {<<March(s, r, h), n - h>> : h \in {n \div 2}}} : TRUE

\* the loop variables when calculateTrajectoryPreview returns (cueBall # NULL):
\* stepSize is added to totalDist in every pass that does not break, so the
\* loop makes at most maxDistance / stepSize passes
PredictionRun(s) ==
    March(s, [points |-> <<>>, ghostBall |-> NULL, collisionBalls |-> <<>>,
              current |-> <<s.cueBall[1].pos[1] * Sub, s.cueBall[1].pos[2] * Sub>>,
              dir |-> DirStep(s.cue.angle), bounces |-> 0, totalDist |-> 0,
              curve |-> CurveOf(s), steps |-> <<>>, broke |-> FALSE],
          maxDistance \div stepSize)

\* mutation of calculateTrajectoryPreview: the cue ball is marched along
calculateTrajectoryPreviewMovesBall(s) ==
    IF s.cueBall = NULL
    THEN [s EXCEPT !.trajectoryPreview.points = <<>>,
                   !.trajectoryPreview.ghostBall = NULL,
                   !.trajectoryPreview.collisionBalls = <<>>]
    ELSE CHOOSE out \in
             {[s EXCEPT !.trajectoryPreview.points = run.points,
                        !.trajectoryPreview.ghostBall = run.ghostBall,
                        !.trajectoryPreview.collisionBalls = run.collisionBalls,
                        !.cueBall[1].pos = <<Coarse(run.current[1]),
                                             Coarse(run.current[2])>>] :
                 run \in {PredictionRun(s)}} : TRUE

\* mutation of calculateTrajectoryPreview: the points of the forecast before
\* are not dropped
calculateTrajectoryPreviewKeepsPoints(s) ==
    IF s.cueBall = NULL
    THEN [s EXCEPT !.trajectoryPreview.ghostBall = NULL,
                   !.trajectoryPreview.collisionBalls = <<>>]
    ELSE CHOOSE out \in
             {[s EXCEPT !.trajectoryPreview.points = @ \o run.points,
                        !.trajectoryPreview.ghostBall = run.ghostBall,
                        !.trajectoryPreview.collisionBalls = run.collisionBalls] :
                 run \in {PredictionRun(s)}} : TRUE

calculateTrajectoryPreview(s) ==
    IF s.cueBall = NULL
    THEN [s EXCEPT !.trajectoryPreview.points = <<>>,
                   !.trajectoryPreview.ghostBall = NULL,
                   !.trajectoryPreview.collisionBalls = <<>>]
    ELSE CHOOSE out \in
             {[s EXCEPT !.trajectoryPreview.points = run.points,
                        !.trajectoryPreview.ghostBall = run.ghostBall,
                        !.trajectoryPreview.collisionBalls = run.collisionBalls] :
                 run \in {PredictionRun(s)}} : TRUE

\* mutation of drawsTrajectoryPreview: the forecast is drawn whenever it is
\* enabled and the cue ball is placed
drawsTrajectoryPreviewInFlight(s) ==
    s.cueBallPlaced /\ s.trajectoryPreview.enabled

\* the condition under which draw() calls drawTrajectoryPreview
drawsTrajectoryPreview(s) ==
    s.cueBallPlaced /\ s.canShoot /\ s.trajectoryPreview.enabled

\* ------------------------------------------------------------------------
\* The physics engine (Matter.js, external): Engine.update
\* ------------------------------------------------------------------------
\* Its result is a nondeterministic choice, bounded by a profile
\*   [reds, colours, positions, velocities]:
\* the engine may displace the cue ball, the reds of the rack ordinals in
\* reds and the colours in colours; every other ball rests where it was
\* created.  A body keeps its position and velocity while nothing moves, no
\* force is pending and no movable ball overlaps another; otherwise each
\* movable ball takes a position out of positions (or stays where it is) and
\* a velocity out of velocities.  Pending forces are consumed by the update.
Movable(ball, prof) ==
    \/ ball.label = "cueBall"
    \/ ball.label = "red" /\ ball.ord \in prof.reds
    \/ ball.label \in prof.colours

AllBalls(s) ==
    {s.redBalls[i] : i \in 1..Len(s.redBalls)}
        \cup {s.colouredBalls[c] : c \in ColourSet}
        \cup {s.cueBall[i] : i \in 1..Len(s.cueBall)}

Disturbed(s, prof) ==
    \/ \E b \in AllBalls(s) : b.vel # <<0, 0>> \/ b.force > 0
    \/ \E a \in {x \in AllBalls(s) : Movable(x, prof)} : \E b \in AllBalls(s) :
          a # b /\ Dist2(a.pos, b.pos) < ballDiameter * ballDiameter

\* the velocities the engine may leave a ball with in this update
Velocities(s, ball, prof) ==
    IF s.isShooting /\ s.replaySystem.frames + 1 >= MaxFlightFrames
    THEN {<<0, 0>>}
    ELSE IF ball.force > 0 THEN prof.velocities \ {<<0, 0>>}
    ELSE prof.velocities

\* the states a ball may be left in
Moved(s, ball, prof) ==
    IF ~Movable(ball, prof) THEN {[ball EXCEPT !.force = 0]}
    ELSE {[ball EXCEPT !.pos = p, !.vel = v, !.force = 0] :
             p \in {ball.pos} \cup prof.positions, v \in Velocities(s, ball, prof)}

\* the sequences of states a sequence of balls may be left in
RECURSIVE MovedSeqs(_, _, _, _)
MovedSeqs(s, balls, i, prof) ==
    IF i > Len(balls) THEN {<<>>}
    ELSE {<<b>> \o rest : b \in Moved(s, balls[i], prof),
                          rest \in MovedSeqs(s, balls, i + 1, prof)}

\* the set of states Engine.update(engine) may produce
EngineUpdate(s, prof) ==
    IF ~Disturbed(s, prof) THEN {s}
    ELSE {[s EXCEPT !.cueBall = c,
                    !.redBalls = r,
                    !.colouredBalls = [x \in ColourSet |->
                        k[CHOOSE i \in 1..Len(Colours) : Colours[i] = x]]] :
             c \in MovedSeqs(s, s.cueBall, 1, prof),
             r \in MovedSeqs(s, s.redBalls, 1, prof),
             k \in MovedSeqs(s, [i \in 1..Len(Colours) |-> s.colouredBalls[Colours[i]]],
                             1, prof)}

\* ------------------------------------------------------------------------
\* Inputs of the specifications
\* ------------------------------------------------------------------------
Seeds == 1..NumSeeds

\* pointer positions
pInD == <<dCenterX, baulkY + 30 * Scale>>          \* inside the D, clear of every ball
pAim == <<dCenterX, baulkY - 50 * Scale>>          \* on the table, above the baulk line

topMiddlePocket == pocketPositions[5]
vRest == <<0, 0>>
vSlow == <<9, 12>>       \* speed 0.15, exactly the threshold
vFast == <<20, 0>>       \* speed 0.20, above the threshold

\* Spec: the session (placement, aiming, shooting, capture, settling,
\* mode switches and the R key)
SessionKeys == {"1", "2", "3", "r", " "}
SessionPoints == {pInD, pAim}
SessionPhysics ==
    [reds |-> {1}, colours |-> {},
     positions |-> {topMiddlePocket},
     velocities |-> {vRest, vSlow, vFast}]

\* SpecCapture: capture and respot, with balls at the centre and on the capture
\* circle of a pocket
pocketEdge == <<topMiddlePocket[1], topMiddlePocket[2] + pocketRadius>>
CaptureKeys == {"1", "2", "3"}
CapturePhysics ==
    [reds |-> {1}, colours |-> {"black"},
     positions |-> {topMiddlePocket, pocketEdge},
     velocities |-> {vRest, vFast}]

\* SpecPlace: cue ball placement
pTouching == <<dCenterX, baulkY + ballDiameter>>     \* one ball diameter from brown
pOverlap == <<dCenterX, baulkY + ballDiameter - 1>>  \* just inside that diameter
pBelow == <<dCenterX, innerBottom + Scale>>          \* inside the semicircle, in the cushion
pOnArc == <<dCenterX + 1536, baulkY + 640>>          \* on the arc: 1536^2 + 640^2 = dRadius^2
pOnBaulk == <<dCenterX - 30 * Scale, baulkY>>        \* on the baulk line
pBeyondArc == <<dCenterX + 1537, baulkY + 640>>      \* just outside the arc
pSpinTop == <<spinUiX, spinUiY - uiRadius>>          \* top of the spin control
PlaceKeys == {"1", "2", "3", "r"}
PlacePoints ==
    {pInD, pAim, pTouching, pOverlap, pBelow, pOnArc, pOnBaulk, pBeyondArc, pSpinTop}

\* SpecAim: aiming, power selection, spin and release with the cue ball at
\* pInD; only the cue ball is set in motion
pSideAim == <<dCenterX + 60 * Scale, baulkY - 50 * Scale>>  \* direction <<3, -4>> from pInD
pMinimum == <<pAim[1], pAim[2] + 100>>           \* 6.25 px from pAim: pull-back 5
pFar == <<pAim[1], pAim[2] + 200 * Scale>>       \* 200 px from pAim: pull-back 160 unclamped
pSpinSide == <<spinUiX + 20 * Scale, spinUiY + 10 * Scale>>  \* inside the spin control
AimKeys == {"c"}
AimPressPoints == {pAim, pSpinSide}
AimDragPoints == {pMinimum, pInD, pFar}
AimPhysics ==
    [reds |-> {}, colours |-> {}, positions |-> {},
     velocities |-> {vRest, vFast}]

\* SpecForecast: the trajectory forecast, with the cue ball at rest at pInD,
\* against the left cushion or near the top left corner of the inset
\* rectangle, the pointer around it and side spin to either side
pLeftRail == <<innerLeft + ballRadius, tableY + 300 * Scale>>
pCorner == <<innerLeft + ballRadius + 2 * Scale, innerTop + ballRadius + 2 * Scale>>
pBelowD == <<pInD[1], pInD[2] + 30 * Scale>>          \* straight below pInD
pRailUp == <<pLeftRail[1], pLeftRail[2] - 50 * Scale>>  \* straight above pLeftRail
pCornerOut == <<pCorner[1] - 5 * Scale, pCorner[2] - 5 * Scale>>  \* diagonally outward
pSpinLeft == <<spinUiX - 20 * Scale, spinUiY>>         \* inside the spin control
ForecastKeys == {"c"}
ForecastCuePositions == {pInD, pLeftRail, pCorner}
ForecastPressPoints == {pSpinSide, pSpinLeft}
ForecastFramePoints == {pAim, pBelowD, pRailUp, pCornerOut}
StillPhysics ==
    [reds |-> {}, colours |-> {}, positions |-> {}, velocities |-> {vRest}]

\* SpecNearest: the forecast with the cue ball at rest level with the middle
\* between the pink and the apex red of the triangle, the pointer level with
\* it on the far side: the path passes at equal distance from both, and side
\* spin bends it toward one of them
pTie == <<499 * Scale, (spotPositions["pink"][2] + TrianglePositions[1][2]) \div 2>>
pTieBack == <<pTie[1] - 36, pTie[2]>>      \* 2.25 px farther from the two balls
pTieAim == <<600 * Scale, pTie[2]>>
NearestCuePositions == {pTie, pTieBack}
NearestKeys == {"c"}
NearestPressPoints == {pSpinSide, pSpinLeft}

\* SpecFlight: a shot from pInD and what the keys and the pointer can do to
\* it until it ends; only the cue ball is set in motion, and it may reach the
\* top middle pocket
FlightKeys == {"2", "r", " "}
FlightPoints == {pInD, pAim}
FlightPhysics ==
    [reds |-> {}, colours |-> {},
     positions |-> {topMiddlePocket},
     velocities |-> {vRest, vFast}]

\* SpecTouch: the forecast with the cue ball at rest touching the brown from
\* below (centres one ball diameter apart) or pressed against it (1/16 px
\* closer), the pointer straight above or straight below
TouchCuePositions == {pTouching, pOverlap}
TouchFramePoints == {pAim, pBelowD}

\* ------------------------------------------------------------------------
\* Actions
\* ------------------------------------------------------------------------
\* the globals as declared, before setup() runs
Declared ==
    [currentMode |-> 1, cueBallPlaced |-> FALSE, isShooting |-> FALSE,
     canShoot |-> TRUE,
     cue |-> [angle |-> <<1, 0>>, pullBack |-> 0, isAiming |-> FALSE,
              dragStart |-> <<0, 0>>],
     spinControl |-> [x |-> 0, y |-> 0, isDragging |-> FALSE],
     trajectoryPreview |-> [enabled |-> TRUE, points |-> <<>>,
                            ghostBall |-> NULL, collisionBalls |-> <<>>],
     replaySystem |-> [recording |-> FALSE, frames |-> 0, oldest |-> 1,
                       playbackIndex |-> 0, showReplay |-> FALSE],
     cueBall |-> NULL, redBalls |-> <<>>,
     colouredBalls |-> [c \in ColourSet |-> NULL],
     world |-> [l \in Labels |-> 0]]

\* setup(): createBalls() in mode 1 (the triangle uses no random draw)
setup == createBalls(Declared, 1)

InitAt(s) ==
    /\ pc = "idle"
    /\ currentMode = s.currentMode
    /\ cueBallPlaced = s.cueBallPlaced
    /\ isShooting = s.isShooting
    /\ canShoot = s.canShoot
    /\ cue = s.cue
    /\ spinControl = s.spinControl
    /\ trajectoryPreview = s.trajectoryPreview
    /\ replaySystem = s.replaySystem
    /\ cueBall = s.cueBall
    /\ redBalls = s.redBalls
    /\ colouredBalls = s.colouredBalls
    /\ world = s.world

Init == InitAt(setup)

KeyPressed(key, seed) ==
    /\ pc = "idle"
    /\ Set(keyPressed(St, key, seed))
    /\ UNCHANGED pc

MousePressed(m) ==
    /\ pc = "idle"
    /\ Set(mousePressed(St, m))
    /\ UNCHANGED pc

MouseDragged(m, shift) ==
    /\ pc = "idle"
    /\ Set(mouseDragged(St, m, shift))
    /\ UNCHANGED pc

MouseReleased ==
    /\ pc = "idle"
    /\ Set(mouseReleased(St))
    /\ UNCHANGED pc

\* draw() while the replay is showing: drawReplayFrame and return
DrawReplay ==
    /\ pc = "idle"
    /\ replaySystem.showReplay
    /\ Set(drawReplayFrame(St))
    /\ UNCHANGED pc

\* draw(): Engine.update, then the replay frame of a shot in progress
DrawPhysics(prof) ==
    /\ pc = "idle"
    /\ ~replaySystem.showReplay
    /\ \E u \in EngineUpdate(St, prof) :
          Set(IF u.isShooting /\ u.replaySystem.recording
              THEN recordReplayFrame(u) ELSE u)
    /\ pc' = "capture"

\* mutation of DrawCapture: the settle check is made before the capture pass
DrawSettleBeforeCapture ==
    /\ pc = "capture"
    /\ Set(checkPocketCollisions(checkBallsMoving(St)))
    /\ pc' = "settle"

\* draw(): checkPocketCollisions
DrawCapture ==
    /\ pc = "capture"
    /\ Set(checkPocketCollisions(St))
    /\ pc' = "settle"

\* draw(): checkBallsMoving
DrawSettle ==
    /\ pc = "settle"
    /\ Set(checkBallsMoving(St))
    /\ pc' = "predict"

\* draw(): calculateTrajectoryPreview, then drawCue with the pointer at m
DrawPredict(m) ==
    /\ pc = "predict"
    /\ \E a \in {IF cueBallPlaced /\ canShoot /\ cueBall # NULL
                  THEN calculateTrajectoryPreview(St) ELSE St} :
          \E b \in {IF cueBallPlaced /\ canShoot THEN drawCue(a, m) ELSE a} :
              Set(b)
    /\ pc' = "idle"

Next ==
    \/ \E key \in SessionKeys, seed \in Seeds : KeyPressed(key, seed)
    \/ \E m \in SessionPoints : MousePressed(m)
    \/ \E m \in SessionPoints, shift \in BOOLEAN : MouseDragged(m, shift)
    \/ MouseReleased
    \/ DrawReplay
    \/ DrawPhysics(SessionPhysics)
    \/ DrawCapture
    \/ DrawSettle
    \/ DrawPredict(pAim)

Spec == Init /\ [][Next]_vars

\* SpecCapture starts where the first shot has just been fired: the cue ball
\* placed at pInD, the aim locked at pAim, the cue pulled back to pInD and
\* released
firstShot ==
    mouseReleased(mouseDragged(mousePressed(mousePressed(setup, pInD), pAim),
                               pInD, FALSE))

InitCapture == InitAt(firstShot)

NextCapture ==
    \/ \E key \in CaptureKeys, seed \in Seeds : KeyPressed(key, seed)
    \/ MousePressed(pInD)
    \/ DrawPhysics(CapturePhysics)
    \/ DrawCapture
    \/ DrawSettle
    \/ DrawPredict(pAim)

SpecCapture == InitCapture /\ [][NextCapture]_vars

NextPlace ==
    \/ \E key \in PlaceKeys, seed \in Seeds : KeyPressed(key, seed)
    \/ \E m \in PlacePoints : MousePressed(m)
    \/ MouseReleased

SpecPlace == Init /\ [][NextPlace]_vars

\* SpecAim starts with the cue ball placed at pInD
placed == mousePressed(setup, pInD)

InitAim == InitAt(placed)

NextAim ==
    \/ \E key \in AimKeys, seed \in Seeds : KeyPressed(key, seed)
    \/ \E m \in AimPressPoints : MousePressed(m)
    \/ \E m \in AimDragPoints, shift \in BOOLEAN : MouseDragged(m, shift)
    \/ MouseReleased
    \/ DrawPhysics(AimPhysics)
    \/ DrawCapture
    \/ DrawSettle
    \/ DrawPredict(pSideAim)

SpecAim == InitAim /\ [][NextAim]_vars

\* SpecForecast starts with the cue ball placed and, after play, at rest at
\* one of the positions of ForecastCuePositions
AtRest(p) == [placed EXCEPT !.cueBall[1].pos = p]

InitForecast == \E p \in ForecastCuePositions : InitAt(AtRest(p))

NextForecast ==
    \/ \E key \in ForecastKeys, seed \in Seeds : KeyPressed(key, seed)
    \/ \E m \in ForecastPressPoints : MousePressed(m)
    \/ MouseReleased
    \/ DrawPhysics(StillPhysics)
    \/ DrawCapture
    \/ DrawSettle
    \/ \E m \in ForecastFramePoints : DrawPredict(m)

SpecForecast == InitForecast /\ [][NextForecast]_vars

\* SpecNearest starts with the cue ball at rest at pTie or pTieBack
InitNearest == \E p \in NearestCuePositions : InitAt(AtRest(p))

NextNearest ==
    \/ \E key \in NearestKeys, seed \in Seeds : KeyPressed(key, seed)
    \/ \E m \in NearestPressPoints : MousePressed(m)
    \/ MouseReleased
    \/ DrawPhysics(StillPhysics)
    \/ DrawCapture
    \/ DrawSettle
    \/ DrawPredict(pTieAim)

SpecNearest == InitNearest /\ [][NextNearest]_vars

\* SpecFlight: p5 keeps calling draw(), so a frame that can be drawn is
\* drawn; key and pointer events come as the user pleases
DrawFrame ==
    \/ DrawReplay
    \/ DrawPhysics(FlightPhysics)
    \/ DrawCapture
    \/ DrawSettle
    \/ DrawPredict(pAim)

NextFlight ==
    \/ \E key \in FlightKeys, seed \in Seeds : KeyPressed(key, seed)
    \/ \E m \in FlightPoints : MousePressed(m)
    \/ MouseDragged(pInD, FALSE)
    \/ MouseReleased
    \/ DrawFrame

SpecFlight == Init /\ [][NextFlight]_vars /\ WF_vars(DrawFrame)

\* SpecReplay starts late in a long first shot: the cue ball still rolling,
\* the force of the strike spent, and the replay buffer holding every frame
\* of the shot so far, one short of full or just full
lateInFlight(n) ==
    [firstShot EXCEPT !.cueBall[1].force = 0, !.cueBall[1].vel = vFast,
                      !.replaySystem.frames = n]

InitReplay == \E n \in {maxFrames - 1, maxFrames} : InitAt(lateInFlight(n))

\* the replay is not played back here (no space key): a playback reads the
\* buffer and writes none of it
NextReplay ==
    \/ \E key \in {"2", "r"}, seed \in Seeds : KeyPressed(key, seed)
    \/ \E m \in FlightPoints : MousePressed(m)
    \/ MouseDragged(pInD, FALSE)
    \/ MouseReleased
    \/ DrawPhysics(FlightPhysics)
    \/ DrawCapture
    \/ DrawSettle
    \/ DrawPredict(pAim)

SpecReplay == InitReplay /\ [][NextReplay]_vars

\* SpecTouch starts with the cue ball at rest at pTouching or pOverlap
InitTouch == \E p \in TouchCuePositions : InitAt(AtRest(p))

NextTouch ==
    \/ \E key \in NearestKeys, seed \in Seeds : KeyPressed(key, seed)
    \/ \E m \in NearestPressPoints : MousePressed(m)
    \/ MouseReleased
    \/ DrawPhysics(StillPhysics)
    \/ DrawCapture
    \/ DrawSettle
    \/ \E m \in TouchFramePoints : DrawPredict(m)

SpecTouch == InitTouch /\ [][NextTouch]_vars

\* ------------------------------------------------------------------------
\* Claims
\* ------------------------------------------------------------------------
\* a force was applied to the cue ball in this step: a shot was fired
ShotFired ==
    /\ cueBall # NULL
    /\ cueBall' # NULL
    /\ cueBall'[1].force = cueBall[1].force + 1

BallsUnchanged ==
    /\ cueBall' = cueBall
    /\ redBalls' = redBalls
    /\ colouredBalls' = colouredBalls
    /\ world' = world

\* C1: while a shot is in flight (isShooting) no cue ball is created; a cue
\* ball potted during a shot comes back only after the shot has settled.
C1_NoCueBallCreatedInFlight ==
    [][(isShooting /\ cueBall = NULL) => cueBall' = NULL]_vars

\* C2: a release gesture while no cue ball exists or while a shot is in
\* flight applies no force, does not set isShooting and changes no ball.
C2_ReleaseIsNoOp ==
    [][(MouseReleased /\ (cueBall = NULL \/ isShooting))
          => (~ShotFired /\ BallsUnchanged /\ isShooting' = isShooting
              /\ canShoot' = canShoot)]_vars

\* a release with the aim locked and the cue pulled back, but no cue ball
C2_Witness ==
    /\ pc = "idle"
    /\ cueBall = NULL
    /\ cue.isAiming
    /\ cue.pullBack > minPullBack

\* C3: isShooting turns from false to true only in a step that fires a
\* shot; no frame step, capture, key event or placement sets it.
C3_InFlightOnlyByShot ==
    [][(~isShooting /\ isShooting') => (MouseReleased /\ ShotFired)]_vars

\* a shot was fired and has settled
C3_Witness ==
    /\ pc = "idle"
    /\ ~isShooting
    /\ canShoot
    /\ replaySystem.frames > 0
    /\ ~replaySystem.recording

\* --- capture ---
LiveCount ==
    Len(cueBall) + Len(redBalls)
        + Cardinality({c \in ColourSet : colouredBalls[c] # NULL})

\* distance of p to some pocket centre, against the capture radius
NearerThanRadius(p) ==
    \E k \in 1..Len(pocketPositions) :
        Dist2(p, pocketPositions[k]) < pocketRadius * pocketRadius
WithinRadius(p) ==
    \E k \in 1..Len(pocketPositions) :
        Dist2(p, pocketPositions[k]) <= pocketRadius * pocketRadius

\* what a capture-detection pass (the step at pc = "capture") did to a ball
CueCaptured == cueBall # NULL /\ cueBall' = NULL
CueKept == cueBall' = cueBall
RedCaptured(i) == \A j \in 1..Len(redBalls') : redBalls'[j].ord # redBalls[i].ord
RedKept(i) == \E j \in 1..Len(redBalls') : redBalls'[j] = redBalls[i]
ColourRespotted(c) ==
    /\ colouredBalls'[c] # NULL
    /\ colouredBalls'[c].label = c
    /\ colouredBalls'[c].pos = spotPositions[c]
    /\ colouredBalls'[c].vel = <<0, 0>>
    /\ world'[c] = 1
ColourKept(c) == colouredBalls'[c] = colouredBalls[c]

\* C4: a capture pass leaves a captured colour live, on its own spot with
\* zero velocity, and lowers the live-ball count by one for every captured
\* red and for a captured cue ball, whose reference becomes null.
C4_CaptureConservation ==
    [][pc = "capture" =>
        LET cuePotted == cueBall # NULL /\ InPocket(cueBall[1].pos)
            redsPotted == {i \in 1..Len(redBalls) : InPocket(redBalls[i].pos)}
        IN  /\ LiveCount' = LiveCount - Cardinality(redsPotted)
                                - (IF cuePotted THEN 1 ELSE 0)
            /\ world'["red"] = world["red"] - Cardinality(redsPotted)
            /\ world'["cueBall"] = world["cueBall"] - (IF cuePotted THEN 1 ELSE 0)
            /\ cuePotted => cueBall' = NULL
            /\ \A i \in redsPotted : RedCaptured(i)
            /\ \A c \in ColourSet :
                  InPocket(colouredBalls[c].pos) => ColourRespotted(c)]_vars

\* a pass that captures the cue ball, a red and a moving colour at once
C4_Witness ==
    /\ pc = "capture"
    /\ cueBall # NULL /\ InPocket(cueBall[1].pos)
    /\ \E i \in 1..Len(redBalls) : InPocket(redBalls[i].pos)
    /\ InPocket(colouredBalls["black"].pos)
    /\ colouredBalls["black"].vel # <<0, 0>>

\* --- placement ---
DCentre == <<dCenterX, baulkY>>
\* the D-zone as the semicircle below the baulk line
StrictlyInsideD(m) == Dist2(m, DCentre) < dRadius * dRadius /\ m[2] > baulkY
OutsideD(m) == ~(Dist2(m, DCentre) <= dRadius * dRadius /\ m[2] >= baulkY)
\* squared distance from m to the nearest ball centre is compared by R(_, _)
FartherThanDiameter(m) ==
    \A b \in AllBalls(St) : Dist2(m, b.pos) > ballDiameter * ballDiameter
WithinDiameter(m) ==
    \E b \in AllBalls(St) : Dist2(m, b.pos) <= ballDiameter * ballDiameter
NearerThanDiameter(m) ==
    \E b \in AllBalls(St) : Dist2(m, b.pos) < ballDiameter * ballDiameter

SessionUnchanged ==
    /\ cueBallPlaced' = cueBallPlaced
    /\ isShooting' = isShooting
    /\ canShoot' = canShoot
    /\ currentMode' = currentMode
    /\ cue' = cue

\* the outcome of a press at m in the present state
PlacesAt(m) ==
    LET t == mousePressed(St, m)
    IN  /\ t.cueBall = <<NewBody("cueBall", m, 0)>>
        /\ t.world["cueBall"] = 1
        /\ t.cueBallPlaced

\* C5 as stated: with no cue ball, a press at any point strictly inside the
\* D-zone semicircle and farther than a ball diameter from every ball
\* creates the cue ball at that point, the only cue ball.
C5_Original ==
    \A m \in PlacePoints :
        (pc = "idle" /\ cueBall = NULL /\ StrictlyInsideD(m)
            /\ FartherThanDiameter(m))
        => PlacesAt(m)

\* C5 (amended): ... strictly inside the D-zone semicircle, not beyond the
\* bottom cushion face (y <= innerBottom), and farther than a ball diameter
\* from every ball ...
C5_PlacementSucceeds ==
    \A m \in PlacePoints :
        (pc = "idle" /\ cueBall = NULL /\ StrictlyInsideD(m)
            /\ m[2] <= innerBottom /\ FartherThanDiameter(m))
        => PlacesAt(m)

\* the cue ball placed at a point of the D, after an earlier one was removed
C5_Witness ==
    /\ cueBall # NULL
    /\ cueBall[1].pos = pInD
    /\ StrictlyInsideD(pInD)
    /\ world["cueBall"] = 1
    /\ currentMode = 3

\* C6 as stated: a press outside the D-zone, or within (at most) one ball
\* diameter of a ball's centre, creates no cue ball and changes no ball or
\* session state.
C6_Original ==
    [][\A m \in PlacePoints :
          (MousePressed(m) /\ cueBall = NULL
              /\ (OutsideD(m) \/ WithinDiameter(m)))
          => (cueBall' = NULL /\ BallsUnchanged /\ SessionUnchanged)]_vars

\* C6 (amended): ... or nearer than one ball diameter to a ball's centre ...
C6_PlacementRejected ==
    [][\A m \in PlacePoints :
          (MousePressed(m) /\ cueBall = NULL
              /\ (OutsideD(m) \/ NearerThanDiameter(m)))
          => (cueBall' = NULL /\ BallsUnchanged /\ SessionUnchanged)]_vars

\* no cue ball (removed by R), with gesture points both outside the D and
\* inside it on top of a ball
C6_Witness ==
    /\ pc = "idle"
    /\ cueBall = NULL
    /\ cue.dragStart # <<0, 0>>
    /\ \E m \in PlacePoints : OutsideD(m)
    /\ \E m \in PlacePoints : ~OutsideD(m) /\ NearerThanDiameter(m)

\* --- registry invariants ---
\* C7: at most one cue ball is live, in the registry and in the physics
\* world, and cueBallPlaced is true exactly when it exists.
C7_OneCueBall ==
    /\ Len(cueBall) <= 1
    /\ world["cueBall"] = Len(cueBall)
    /\ cueBallPlaced <=> (cueBall # NULL)

\* a cue ball placed again after one was potted during a shot
C7_Witness ==
    /\ cueBall # NULL
    /\ replaySystem.frames > 0
    /\ cueBall[1].frictionAir = BALL_FRICTION_AIR
    /\ cueBall[1].pos = pInD
    /\ cueBall[1].vel = <<0, 0>>
    /\ Len(redBalls) < RedCount

\* C8: each of the six colours has exactly one live ball, in the registry
\* and in the physics world.
C8_ColoursStay ==
    \A c \in ColourSet :
        /\ colouredBalls[c] # NULL
        /\ colouredBalls[c].label = c
        /\ world[c] = 1

\* a capture pass is about to take the black, moving at a pocket centre, the
\* cue ball having been potted before it
C8_Witness ==
    /\ pc = "capture"
    /\ cueBall = NULL
    /\ colouredBalls["black"].pos = topMiddlePocket
    /\ colouredBalls["black"].vel = vFast
    /\ world["black"] = 1

\* a rack setup by key 1, 2 or 3
RackSetup == \E key \in {"1", "2", "3"}, seed \in Seeds : KeyPressed(key, seed)

\* C9: the red count is 15 after a rack setup (setup, keys 1, 2, 3): a step
\* that leaves another count is no rack setup; the count is never above 15,
\* and only a rack setup raises it.
C9_RedCount ==
    /\ Len(redBalls) = RedCount
    /\ world["red"] = RedCount
    /\ [][/\ Len(redBalls') > Len(redBalls) => RackSetup
          /\ Len(redBalls') # RedCount => ~RackSetup
          /\ Len(redBalls') <= RedCount
          /\ world'["red"] = Len(redBalls')]_vars

\* a rack with a red potted
C9_Witness == Len(redBalls) = RedCount - 1 /\ currentMode = 2

\* C10 as stated: a capture pass captures every live ball within (at most)
\* the capture radius of some pocket centre, whatever its velocity, and no
\* ball farther than that from every pocket centre.
C10_Original ==
    [][pc = "capture" =>
        /\ cueBall # NULL =>
              /\ WithinRadius(cueBall[1].pos) => CueCaptured
              /\ ~WithinRadius(cueBall[1].pos) => CueKept
        /\ \A i \in 1..Len(redBalls) :
              /\ WithinRadius(redBalls[i].pos) => RedCaptured(i)
              /\ ~WithinRadius(redBalls[i].pos) => RedKept(i)
        /\ \A c \in ColourSet :
              /\ WithinRadius(colouredBalls[c].pos) => ColourRespotted(c)
              /\ ~WithinRadius(colouredBalls[c].pos) => ColourKept(c)]_vars

\* C10 (amended): a capture pass captures every live ball nearer than the
\* capture radius to some pocket centre, whatever its velocity, and no ball
\* at that distance or farther from every pocket centre.
C10_CaptureRule ==
    [][pc = "capture" =>
        /\ cueBall # NULL =>
              /\ NearerThanRadius(cueBall[1].pos) => CueCaptured
              /\ ~NearerThanRadius(cueBall[1].pos) => CueKept
        /\ \A i \in 1..Len(redBalls) :
              /\ NearerThanRadius(redBalls[i].pos) => RedCaptured(i)
              /\ ~NearerThanRadius(redBalls[i].pos) => RedKept(i)
        /\ \A c \in ColourSet :
              /\ NearerThanRadius(colouredBalls[c].pos) => ColourRespotted(c)
              /\ ~NearerThanRadius(colouredBalls[c].pos) => ColourKept(c)]_vars

\* a pass with a moving ball exactly at a pocket centre and another ball
\* exactly on the capture circle
C10_Witness ==
    /\ pc = "capture"
    /\ cueBall # NULL
    /\ cueBall[1].pos = pocketEdge
    /\ \E i \in 1..Len(redBalls) :
          redBalls[i].pos = topMiddlePocket /\ redBalls[i].vel = vFast
    /\ colouredBalls["black"].pos = topMiddlePocket
    /\ colouredBalls["black"].vel = vRest

\* ------------------------------------------------------------------------
\* C11
\* ------------------------------------------------------------------------
\* a live ball is faster than the threshold / at least as fast as it
SomeAbove == \E b \in AllBalls(St) : Speed2(b) > threshold * threshold
SomeAtOrAbove == \E b \in AllBalls(St) : Speed2(b) >= threshold * threshold

\* C11 as stated: at a settle check in flight the session settles exactly
\* when every live ball is slower than the threshold, and stays in flight when
\* some ball is not slower.  Violated: a ball at exactly the threshold does
\* not keep the shot in flight.
C11_Original ==
    [][pc = "settle" /\ isShooting =>
          IF SomeAtOrAbove THEN isShooting' /\ ~canShoot'
          ELSE ~isShooting' /\ canShoot']_vars

\* C11, amended: at a settle check in flight the session settles (isShooting
\* false, canShoot true) exactly when no live ball is faster than the
\* threshold; when some live ball is faster the shot stays in flight.
C11_SettleRule ==
    [][pc = "settle" /\ isShooting =>
          IF SomeAbove THEN isShooting' /\ ~canShoot'
          ELSE ~isShooting' /\ canShoot']_vars

\* a settle check in flight with a ball at exactly the threshold and none faster
C11_Witness ==
    /\ pc = "settle"
    /\ isShooting
    /\ ~SomeAbove
    /\ \E b \in AllBalls(St) : b.vel = vSlow

\* ------------------------------------------------------------------------
\* C12
\* ------------------------------------------------------------------------
\* what the claim says of a release of the state s: the pull-back is compared
\* with the minimum, and the intent is reset
ReleaseFiresOrCancels(s) ==
    LET a == mouseReleased(s)
    IN  /\ a.cue.pullBack = 0
        /\ ~a.cue.isAiming
        /\ IF s.cue.pullBack > minPullBack
           THEN /\ a.cueBall[1].force = s.cueBall[1].force + 1
                /\ a.isShooting
                /\ ~a.canShoot
           ELSE /\ a.cueBall = s.cueBall
                /\ ~a.isShooting
                /\ a.canShoot
                /\ a.cueBallPlaced

\* C12 as stated: a release during power-select (aim locked) fires exactly
\* one force and enters flight if the pull-back exceeds the minimum, applies
\* none and stays aim-ready otherwise, and leaves pull-back 0 and the aim
\* unlocked.  Violated: a release that ends a drag of the spin control
\* returns before any of this.
C12_Original ==
    pc = "idle" /\ cue.isAiming => ReleaseFiresOrCancels(St)

\* C12, amended: the same, for a release during power-select while the spin
\* control is not being dragged.
C12_ReleaseRule ==
    pc = "idle" /\ cue.isAiming /\ ~spinControl.isDragging
        => ReleaseFiresOrCancels(St)

\* power-select with the pull-back above the minimum and no spin drag: the
\* release fires
C12_Witness ==
    /\ pc = "idle"
    /\ cue.isAiming
    /\ ~spinControl.isDragging
    /\ cue.pullBack > minPullBack
    /\ mouseReleased(St).isShooting

\* ------------------------------------------------------------------------
\* C13
\* ------------------------------------------------------------------------
\* C13: immediately after a shot is fired the pull-back is 0, the aim is
\* unlocked and both spin components are 0.  Violated: nothing in
\* mouseReleased or shootCueBall resets the spin.
C13_NeutralAfterShot ==
    [][ShotFired => /\ cue.pullBack' = 0
                    /\ ~cue.isAiming'
                    /\ spinControl.x' = 0
                    /\ spinControl.y' = 0]_vars

\* ------------------------------------------------------------------------
\* C14
\* ------------------------------------------------------------------------
\* C14: in every reachable state 0 <= pull-back <= maxPullBack.
C14_PullBackBounded == 0 <= cue.pullBack /\ cue.pullBack <= maxPullBack

\* a drag of 200 px at sensitivity 0.8 (160 px unclamped) left the pull-back
\* at the maximum
C14_Witness ==
    /\ cue.isAiming
    /\ cue.dragStart = pAim
    /\ cue.pullBack = maxPullBack
    /\ mouseDragged(St, pFar, FALSE).cue.pullBack = maxPullBack

\* ------------------------------------------------------------------------
\* C15
\* ------------------------------------------------------------------------
\* the direction from the cue ball to the pointer m
AngleTo(m) == atan2(m[2] - cueBall[1].pos[2], m[1] - cueBall[1].pos[1])

\* a frame may make the aim follow the pointer
AimEligible == cueBallPlaced /\ canShoot /\ cueBall # NULL /\ ~isShooting

\* C15: a lock (pointer down outside the spin control while aim-eligible)
\* sets the aim angle to atan2(pointer - cue ball); while the aim stays
\* locked no step changes the angle (a lock made again takes the angle
\* again); a frame changes the angle only while the aim is not locked and
\* the session is aim-eligible, and then to the direction of the pointer.
C15_AimLocked ==
    [][/\ pc = "idle" /\ AimEligible
             => /\ mousePressed(St, pAim).cue.isAiming
                /\ mousePressed(St, pAim).cue.angle = AngleTo(pAim)
       /\ ~cue.isAiming /\ cue.isAiming'
             => cue.angle' = AngleTo(cue.dragStart')
       /\ cue.isAiming /\ cue.isAiming'
             => cue.angle' = cue.angle \/ cue.angle' = AngleTo(cue.dragStart')
       /\ pc # "idle" /\ cue.angle' # cue.angle
             => /\ pc = "predict"
                /\ AimEligible
                /\ ~cue.isAiming
                /\ cue.angle' = AngleTo(pSideAim)]_vars

\* a frame is drawn with the pointer at pSideAim while the aim is locked at
\* pAim and the cue is pulled back
C15_Witness ==
    /\ pc = "predict"
    /\ AimEligible
    /\ cue.isAiming
    /\ cue.pullBack > 0
    /\ cue.angle = AngleTo(pAim)
    /\ cue.angle # AngleTo(pSideAim)

\* ------------------------------------------------------------------------
\* C16 .. C20: the trajectory forecast
\* ------------------------------------------------------------------------
\* the frame is about to run calculateTrajectoryPreview
Forecasting == pc = "predict" /\ cueBallPlaced /\ canShoot /\ cueBall # NULL

\* C16: a prediction run changes nothing but the forecast (points, ghost
\* ball, deflection paths): the balls with their positions and velocities,
\* the registry, the shot intent (cue, spin) and the session flags are as
\* before.
C16_ForecastOnly ==
    Forecasting =>
        \A a \in {calculateTrajectoryPreview(St)} :
            /\ a.cueBall = cueBall
            /\ a.redBalls = redBalls
            /\ a.colouredBalls = colouredBalls
            /\ a.world = world
            /\ a.cue = cue
            /\ a.spinControl = spinControl
            /\ a.currentMode = currentMode
            /\ a.cueBallPlaced = cueBallPlaced
            /\ a.isShooting = isShooting
            /\ a.canShoot = canShoot
            /\ a.replaySystem = replaySystem
            /\ a.trajectoryPreview.enabled = trajectoryPreview.enabled

\* a run that marches a path, meets a ball and computes the deflection paths
C16_Witness ==
    /\ Forecasting
    /\ \E a \in {calculateTrajectoryPreview(St)} :
          /\ Len(a.trajectoryPreview.points) > 1
          /\ a.trajectoryPreview.ghostBall # NULL
          /\ Len(a.trajectoryPreview.collisionBalls) = 2
          /\ a.trajectoryPreview # trajectoryPreview

\* the boundaries of the inset rectangle the marched point raw lies beyond
CrossesX(raw) == raw[1] < insetLeft \/ raw[1] > insetRight
CrossesY(raw) == raw[2] < insetTop \/ raw[2] > insetBottom
Crossings(raw) == (IF CrossesX(raw) THEN 1 ELSE 0) + (IF CrossesY(raw) THEN 1 ELSE 0)

\* C17 as stated: in every pass the bounce counter grows by one per boundary
\* crossed, and it never exceeds maxBounces.  Violated: the loop ends only
\* when the counter has passed maxBounces.
C17_Original ==
    Forecasting =>
        \A run \in {PredictionRun(St)} : \A k \in 1..Len(run.steps) :
            /\ run.steps[k].bouncesTo = run.steps[k].bouncesFrom + Crossings(run.steps[k].raw)
            /\ run.steps[k].bouncesTo <= maxBounces

\* C17, amended: in every pass the bounce counter grows by one per boundary
\* crossed (by two in a step that crosses an x and a y boundary); a pass
\* starts only while the counter is at most maxBounces, so every path point
\* carries a bounce count of at most maxBounces; a pass that takes the
\* counter beyond maxBounces is the last one, and the counter ends at most at
\* maxBounces + 2.
C17_BounceCount ==
    Forecasting =>
        \A run \in {PredictionRun(St)} :
            /\ \A k \in 1..Len(run.steps) :
                  /\ run.steps[k].bouncesTo
                        = run.steps[k].bouncesFrom + Crossings(run.steps[k].raw)
                  /\ run.steps[k].bouncesFrom <= maxBounces
                  /\ run.steps[k].bouncesTo > maxBounces => k = Len(run.steps)
                  /\ k > 1 => run.steps[k].bouncesFrom = run.steps[k - 1].bouncesTo
            /\ \A k \in 1..Len(run.points) : run.points[k].bounce <= maxBounces
            /\ run.bounces <= maxBounces + 2

\* a run that ends, before maxDistance is marched, with the counter beyond
\* maxBounces: the cue ball against the left cushion, aimed along it, with
\* side spin that carries every step across the boundary
C17_Witness ==
    /\ Forecasting
    /\ \E run \in {PredictionRun(St)} :
          /\ run.bounces > maxBounces
          /\ run.totalDist < maxDistance
          /\ Len(run.points) = Len(run.steps)

\* C18 as stated: a step across the left or right boundary is clamped onto
\* it and has only the x component of the direction negated, a step across
\* the top or bottom boundary only the y component, a step across none
\* leaves the direction.  Violated by a step across a corner: both
\* components are negated.
C18_Original ==
    Forecasting =>
        \A run \in {PredictionRun(St)} : \A k \in 1..Len(run.steps) :
            \A st \in {run.steps[k]} :
                /\ CrossesX(st.raw)
                      => /\ st.to[1] \in {insetLeft, insetRight}
                         /\ st.dirTo = <<-st.dirFrom[1], st.dirFrom[2]>>
                /\ CrossesY(st.raw)
                      => /\ st.to[2] \in {insetTop, insetBottom}
                         /\ st.dirTo = <<st.dirFrom[1], -st.dirFrom[2]>>
                /\ Crossings(st.raw) = 0 => st.dirTo = st.dirFrom

\* C18, amended: per component.  A step across the left (right) boundary is
\* clamped onto it and has the x component of the direction negated, a step
\* across the top (bottom) boundary is clamped onto it and has the y
\* component negated; a component whose boundaries are not crossed is left
\* as it is, with its coordinate as marched.  A step across a corner has
\* both components negated.
C18_MirrorReflection ==
    Forecasting =>
        \A run \in {PredictionRun(St)} : \A k \in 1..Len(run.steps) :
            \A st \in {run.steps[k]} :
                /\ st.raw[1] < insetLeft => st.to[1] = insetLeft
                /\ st.raw[1] > insetRight => st.to[1] = insetRight
                /\ st.raw[2] < insetTop => st.to[2] = insetTop
                /\ st.raw[2] > insetBottom => st.to[2] = insetBottom
                /\ st.dirTo[1] = IF CrossesX(st.raw) THEN -st.dirFrom[1] ELSE st.dirFrom[1]
                /\ st.dirTo[2] = IF CrossesY(st.raw) THEN -st.dirFrom[2] ELSE st.dirFrom[2]
                /\ ~CrossesX(st.raw) => st.to[1] = st.raw[1]
                /\ ~CrossesY(st.raw) => st.to[2] = st.raw[2]
                /\ k < Len(run.steps) => run.steps[k + 1].dirFrom = st.dirTo

\* a run with a step across one boundary only, moving in both components
C18_Witness ==
    /\ Forecasting
    /\ \E run \in {PredictionRun(St)} : \E k \in 1..Len(run.steps) :
          /\ Crossings(run.steps[k].raw) = 1
          /\ run.steps[k].dirFrom[1] # 0
          /\ run.steps[k].dirFrom[2] # 0

\* the point p (path coordinates) lies inside or on the inset rectangle
InsideInset(p) ==
    /\ insetLeft <= p[1] /\ p[1] <= insetRight
    /\ insetTop <= p[2] /\ p[2] <= insetBottom

\* C19: if the cue ball starts inside or on the inset rectangle, every path
\* point of the forecast lies inside or on it.
C19_PathInsideInset ==
    Forecasting /\ InsideInset(<<cueBall[1].pos[1] * Sub, cueBall[1].pos[2] * Sub>>) =>
        \A run \in {PredictionRun(St)} : \A k \in 1..Len(run.points) :
            InsideInset(<<run.points[k].x, run.points[k].y>>)

\* a run from inside the rectangle with a path point on a boundary, put
\* there by a step that was marched beyond it
C19_Witness ==
    /\ Forecasting
    /\ InsideInset(<<cueBall[1].pos[1] * Sub, cueBall[1].pos[2] * Sub>>)
    /\ \E run \in {PredictionRun(St)} : \E k \in 1..Len(run.steps) :
          /\ k < Len(run.points)
          /\ Crossings(run.steps[k].raw) > 0
          /\ run.steps[k].to = <<run.points[k + 1].x, run.points[k + 1].y>>
          /\ run.steps[k].to # run.steps[k].raw

\* C20: a ghost ball is recorded only by a pass whose bounce count is still
\* 0 after its step, by at most one pass, and that pass is the last: no path
\* point is added after it.  A run in which no pass meets a ball has no ghost
\* ball and no deflection paths.
C20_GhostBeforeFirstBounce ==
    Forecasting =>
        \A run \in {PredictionRun(St)} :
            /\ \A k \in 1..Len(run.steps) :
                  /\ run.steps[k].hit
                        => /\ run.steps[k].bouncesFrom = 0
                           /\ run.steps[k].bouncesTo = 0
                           /\ k = Len(run.steps)
                           /\ Len(run.points) = k
                           /\ run.ghostBall # NULL
                  /\ run.steps[k].tested => run.steps[k].bouncesTo = 0
            /\ Cardinality({k \in 1..Len(run.steps) : run.steps[k].hit}) <= 1
            /\ Len(run.ghostBall) <= 1
            /\ (\A k \in 1..Len(run.steps) : ~run.steps[k].hit)
                  => run.ghostBall = NULL /\ run.collisionBalls = <<>>
            /\ \A a \in {calculateTrajectoryPreview(St)} :
                  /\ a.trajectoryPreview.ghostBall = run.ghostBall
                  /\ a.trajectoryPreview.collisionBalls = run.collisionBalls
                  /\ a.trajectoryPreview.points = run.points

\* a run whose path passes through a ball after a bounce, with no ghost ball
\* recorded: from pInD straight down, the path comes back up through the brown
C20_Witness ==
    /\ Forecasting
    /\ \E run \in {PredictionRun(St)} :
          /\ run.ghostBall = NULL
          /\ \E k \in 1..Len(run.steps) :
                /\ run.steps[k].bouncesTo > 0
                /\ checkTrajectoryBallCollision(St, run.steps[k].from, run.steps[k].to) # NULL


\* ------------------------------------------------------------------------
\* C21
\* ------------------------------------------------------------------------
Reverse(seq) == [i \in 1..Len(seq) |-> seq[Len(seq) + 1 - i]]

\* the balls (by their place in the order of iteration) whose circle the
\* segment from p1 to p2 meets, and where along the segment
MetBy(p1, p2) ==
    {i \in 1..Len(getAllBallsExceptCue(St)) :
        lineCircleCollision(<<Coarse(p1[1]), Coarse(p1[2])>>, <<Coarse(p2[1]), Coarse(p2[2])>>,
                            getAllBallsExceptCue(St)[i].pos, ballDiameter) # NULL}
MetAt(i, p1, p2) ==
    lineCircleCollision(<<Coarse(p1[1]), Coarse(p1[2])>>, <<Coarse(p2[1]), Coarse(p2[2])>>,
                        getAllBallsExceptCue(St)[i].pos, ballDiameter)[1].num

\* the ball test of the segment from p1 to p2 with the balls iterated in
\* the reverse order
ReverseHit(p1, p2) ==
    ClosestHit(Reverse(getAllBallsExceptCue(St)),
               <<Coarse(p1[1]), Coarse(p1[2])>>, <<Coarse(p2[1]), Coarse(p2[2])>>, p1, p2)

\* C21 as stated: the ghost ball is the ball met nearest along the path,
\* whatever the order of iteration.  Violated when two balls are met at the
\* same distance: the one iterated first is recorded.
C21_Original ==
    Forecasting =>
        \A run \in {PredictionRun(St)} : \A k \in 1..Len(run.steps) :
            run.steps[k].tested =>
                \A h \in {checkTrajectoryBallCollision(St, run.steps[k].from, run.steps[k].to)} :
                    /\ run.steps[k].hit <=> h # NULL
                    /\ h = ReverseHit(run.steps[k].from, run.steps[k].to)
                    /\ h # NULL =>
                          /\ run.ghostBall[1].targetBall = h[1].ball
                          /\ \A i \in MetBy(run.steps[k].from, run.steps[k].to) :
                                h[1].num <= MetAt(i, run.steps[k].from, run.steps[k].to)

\* C21, amended: the ghost ball is a ball met at the least distance along
\* the path, at the same distance and contact point whatever the order of
\* iteration; when several balls are met at exactly that distance the one
\* iterated first (reds in list order, then the colours) is recorded, and
\* only then does the order of iteration change the recorded ball.
C21_NearestWins ==
    Forecasting =>
        \A run \in {PredictionRun(St)} : \A k \in 1..Len(run.steps) :
            run.steps[k].tested =>
                \A h \in {checkTrajectoryBallCollision(St, run.steps[k].from, run.steps[k].to)} :
                  \A met \in {MetBy(run.steps[k].from, run.steps[k].to)} :
                    /\ run.steps[k].hit <=> h # NULL
                    /\ h # NULL <=> met # {}
                    /\ h # NULL =>
                          \A rev \in {ReverseHit(run.steps[k].from, run.steps[k].to)} :
                          \A least \in {{i \in met : MetAt(i, run.steps[k].from, run.steps[k].to) = h[1].num}} :
                              /\ run.ghostBall[1].targetBall = h[1].ball
                              /\ run.ghostBall[1].x = h[1].hit[1]
                              /\ run.ghostBall[1].y = h[1].hit[2]
                              /\ \A i \in met :
                                    h[1].num <= MetAt(i, run.steps[k].from, run.steps[k].to)
                              /\ rev # NULL
                              /\ rev[1].num = h[1].num
                              /\ rev[1].hit = h[1].hit
                              /\ least # {}
                              /\ h[1].ball = getAllBallsExceptCue(St)[CHOOSE i \in least : \A j \in least : i <= j]
                              /\ Cardinality(least) = 1 => rev[1].ball = h[1].ball

\* a pass whose segment meets a red and a colour, the colour nearer: the
\* colour is recorded though the reds are iterated first
C21_Witness ==
    /\ Forecasting
    /\ \E run \in {PredictionRun(St)} : \E k \in 1..Len(run.steps) :
          /\ run.steps[k].hit
          /\ run.ghostBall[1].targetBall.label = "pink"
          /\ \E i \in MetBy(run.steps[k].from, run.steps[k].to) :
                /\ getAllBallsExceptCue(St)[i].label = "red"
                /\ MetAt(i, run.steps[k].from, run.steps[k].to)
                      > checkTrajectoryBallCollision(St, run.steps[k].from, run.steps[k].to)[1].num


\* ------------------------------------------------------------------------
\* C22
\* ------------------------------------------------------------------------
\* The point at parameter n / a of the segment from p1 to p2, a its squared
\* length, lies at the squared distance r^2 + Beyond(n) / a from the centre:
\* outside the circle where Beyond is positive, on it where it is 0.
\* Beyond(n) = n^2 + 2 (f . d) n + a (f . f - r^2), with f = p1 - centre and
\* d = p2 - p1.
Beyond(p1, p2, centre, radius, n) ==
    LET dx == p2[1] - p1[1]
        dy == p2[2] - p1[2]
        fx == p1[1] - centre[1]
        fy == p1[2] - centre[2]
    IN  n * (n + 2 * (fx * dx + fy * dy))
            + (dx * dx + dy * dy) * (fx * fx + fy * fy - radius * radius)

\* the parameter (times a) of the point of the segment nearest to the centre
NearestParam(p1, p2, centre) ==
    LET dx == p2[1] - p1[1]
        dy == p2[2] - p1[2]
        fx == p1[1] - centre[1]
        fy == p1[2] - centre[2]
    IN  constrain(-(fx * dx + fy * dy), 0, dx * dx + dy * dy)

\* the centre is within the radius plus the length of the segment of p1
WithinReach(p1, p2, centre, radius) ==
    /\ Abs(p1[1] - centre[1]) <= radius + Abs(p2[1] - p1[1]) + Abs(p2[2] - p1[2])
    /\ Abs(p1[2] - centre[2]) <= radius + Abs(p2[1] - p1[1]) + Abs(p2[2] - p1[2])

\* what the claim says of lineCircleCollision on one segment and circle
SegmentCircleRule(p1, p2, centre, radius) ==
    \A got \in {lineCircleCollision(p1, p2, centre, radius)} :
        IF ~WithinReach(p1, p2, centre, radius) \/ p1 = p2 THEN got = NULL
        ELSE LET a == Dist2(p1, p2)
                 atStart == Beyond(p1, p2, centre, radius, 0)
                 atEnd == Beyond(p1, p2, centre, radius, a)
                 atNearest == Beyond(p1, p2, centre, radius, NearestParam(p1, p2, centre))
             IN  \* no intersection exactly when the segment stays outside
                 \* the circle (negative discriminant, or both roots on one
                 \* side of [0, 1]) or inside it (one root on either side)
                 /\ got = NULL <=> (atNearest > 0 \/ (atStart < 0 /\ atEnd < 0))
                 /\ got # NULL =>
                       /\ got[1].a = a
                       /\ 0 <= got[1].num /\ got[1].num <= a
                       /\ Beyond(p1, p2, centre, radius, got[1].num) <= 0
                       \* the smaller root: from outside, no earlier point of
                       \* the segment is on the circle; the larger one only
                       \* when the segment starts inside the circle
                       /\ IF atStart >= 0
                          THEN got[1].num = 0
                                  \/ Beyond(p1, p2, centre, radius, got[1].num - 1) > 0
                          ELSE Beyond(p1, p2, centre, radius, got[1].num + 1) > 0

\* C22: lineCircleCollision returns no intersection when the discriminant
\* is negative or neither root lies in [0, 1], that is when no point of the
\* segment lies on the circle; otherwise the smaller root that lies in
\* [0, 1], a point of the segment at the distance radius from the centre
\* (to within one part in a of the segment).  Checked for every segment
\* that a pass of a prediction run marches and every ball.
C22_SegmentCircle ==
    Forecasting =>
        \A run \in {PredictionRun(St)} : \A balls \in {getAllBallsExceptCue(St)} :
            \A k \in 1..Len(run.steps) : \A i \in 1..Len(balls) :
                SegmentCircleRule(<<Coarse(run.steps[k].from[1]), Coarse(run.steps[k].from[2])>>,
                                  <<Coarse(run.steps[k].to[1]), Coarse(run.steps[k].to[2])>>,
                                  balls[i].pos, ballDiameter)

\* the outcome of lineCircleCollision for the k-th segment of the run and
\* the i-th ball
SegmentOutcome(run, k, ball) ==
    LET p1 == <<Coarse(run.steps[k].from[1]), Coarse(run.steps[k].from[2])>>
        p2 == <<Coarse(run.steps[k].to[1]), Coarse(run.steps[k].to[2])>>
        got == lineCircleCollision(p1, p2, ball.pos, ballDiameter)
    IN  IF ~WithinReach(p1, p2, ball.pos, ballDiameter) \/ p1 = p2 THEN "far"
        ELSE IF got = NULL
        THEN IF Beyond(p1, p2, ball.pos, ballDiameter, 0) < 0 THEN "inside" ELSE "outside"
        ELSE IF Beyond(p1, p2, ball.pos, ballDiameter, 0) >= 0 THEN "enters" ELSE "leaves"

\* a run whose segments pass a ball by, enter a circle, lie inside one and
\* leave one
C22_Witness ==
    /\ Forecasting
    /\ \E run \in {PredictionRun(St)} : \A balls \in {getAllBallsExceptCue(St)} :
          \A outcome \in {"outside", "enters", "inside", "leaves"} :
              \E k \in 1..Len(run.steps) : \E i \in 1..Len(balls) :
                  SegmentOutcome(run, k, balls[i]) = outcome


\* ------------------------------------------------------------------------
\* C23
\* ------------------------------------------------------------------------
\* the direction d points along the vector v, in its sense
Along(d, v) == d[1] * v[2] - d[2] * v[1] = 0 /\ d[1] * v[1] + d[2] * v[2] > 0

\* the vector d turned by +90 degrees: (cos, sin)(t + HALF_PI) = (-sin t, cos t)
QuarterTurn(d) == <<-d[2], d[1]>>

\* C23: a forecast holds exactly two deflection rays when it holds a ghost
\* ball and none otherwise; the struck ball's ray starts at its centre and
\* points from the contact point to that centre; with no top or back spin
\* the cue ball's ray starts at the contact point and points along that
\* direction turned by +90 degrees.
C23_DeflectionRays ==
    /\ Len(trajectoryPreview.collisionBalls) = (IF trajectoryPreview.ghostBall # NULL THEN 2 ELSE 0)
    /\ Forecasting =>
          \A run \in {PredictionRun(St)} :
              /\ run.ghostBall = NULL => run.collisionBalls = <<>>
              /\ run.ghostBall # NULL =>
                    \A contact \in {<<run.ghostBall[1].x, run.ghostBall[1].y>>} :
                    \A centre \in {<<run.ghostBall[1].targetBall.pos[1] * Sub,
                                      run.ghostBall[1].targetBall.pos[2] * Sub>>} :
                        /\ Len(run.collisionBalls) = 2
                        /\ run.collisionBalls[1].start = centre
                        /\ run.collisionBalls[1].color = run.ghostBall[1].targetBall.label
                        /\ Along(run.collisionBalls[1].dir,
                                 <<centre[1] - contact[1], centre[2] - contact[2]>>)
                        /\ run.collisionBalls[2].start = contact
                        /\ run.collisionBalls[2].color = "cueBall"
                        /\ spinControl.y = 0 =>
                              /\ run.collisionBalls[2].spinEffect = 0
                              /\ run.collisionBalls[2].dir
                                    = QuarterTurn(run.collisionBalls[1].dir)

\* a run without top or back spin that meets a ball off its centre line: the
\* line of centres is along neither axis
C23_Witness ==
    /\ Forecasting
    /\ spinControl.y = 0
    /\ \E run \in {PredictionRun(St)} :
          /\ run.ghostBall # NULL
          /\ Len(run.collisionBalls) = 2
          /\ run.collisionBalls[1].dir[1] # 0
          /\ run.collisionBalls[1].dir[2] # 0


\* ------------------------------------------------------------------------
\* C24
\* ------------------------------------------------------------------------
\* a forecast left by some earlier run: one path point, a ghost ball and
\* two deflection paths
LeftOver ==
    [enabled |-> trajectoryPreview.enabled,
     points |-> <<[x |-> 0, y |-> 0, bounce |-> 2]>>,
     ghostBall |-> <<[x |-> 0, y |-> 0, targetBall |-> colouredBalls["black"]]>>,
     collisionBalls |-> calculateDeflectionPaths(St, [ball |-> colouredBalls["black"],
                                                      num |-> 0, hit |-> <<0, 0>>])]

\* C24: a prediction run depends on its inputs alone (cue ball position,
\* aim angle, spin, ball positions): the forecast it leaves is the same
\* whatever forecast was there before (the present one, an empty one or
\* another one), and a second run right after it leaves it as it is.
C24_RunIsFunctionOfInputs ==
    Forecasting =>
        \A a \in {calculateTrajectoryPreview(St)} :
            /\ calculateTrajectoryPreview(a) = a
            /\ calculateTrajectoryPreview([St EXCEPT !.trajectoryPreview = LeftOver]) = a
            /\ calculateTrajectoryPreview(
                   [St EXCEPT !.trajectoryPreview.points = <<>>,
                              !.trajectoryPreview.ghostBall = NULL,
                              !.trajectoryPreview.collisionBalls = <<>>]) = a

\* a run made over a forecast with a ghost ball that leaves another
\* forecast, without one
C24_Witness ==
    /\ Forecasting
    /\ trajectoryPreview.ghostBall # NULL
    /\ Len(trajectoryPreview.points) > 0
    /\ \E a \in {calculateTrajectoryPreview(St)} :
          /\ a.trajectoryPreview.ghostBall = NULL
          /\ Len(a.trajectoryPreview.points) > Len(trajectoryPreview.points)


\* ------------------------------------------------------------------------
\* C25
\* ------------------------------------------------------------------------
\* no live ball lies within the capture radius of a pocket
NonePotted == \A b \in AllBalls(St) : ~InPocket(b.pos)

\* the balls faster than the threshold
FastBalls == {b \in AllBalls(St) : Speed2(b) > threshold * threshold}

\* C25: a simulated frame runs the physics advance, then the capture pass,
\* then the settle check, then the prediction, which is made only if the
\* session is aim-eligible (cue ball placed, canShoot); no other handler runs
\* in between.  The settle check is made on the balls the capture pass left
\* (a captured ball is not counted), and the prediction on the balls after
\* both.
C25_FrameOrder ==
    /\ [](pc \in {"settle", "predict"} => NonePotted)
    /\ [](pc = "predict" /\ isShooting => FastBalls # {})
    /\ [][/\ pc = "idle" /\ pc' # "idle" => pc' = "capture" /\ ~replaySystem.showReplay
          /\ pc = "capture" => pc' = "settle" /\ St' = checkPocketCollisions(St)
          /\ pc = "settle" => pc' = "predict" /\ St' = checkBallsMoving(St)
          /\ pc = "settle" /\ isShooting => (isShooting' <=> FastBalls # {})
          /\ pc = "predict" =>
                /\ pc' = "idle"
                /\ BallsUnchanged
                /\ cueBallPlaced /\ canShoot /\ cueBall # NULL
                      => trajectoryPreview' = calculateTrajectoryPreview(St).trajectoryPreview
                /\ ~(cueBallPlaced /\ canShoot /\ cueBall # NULL)
                      => trajectoryPreview' = trajectoryPreview]_vars

\* a capture pass in flight in which every fast ball, the cue ball among
\* them, is potted: the settle check of the same frame ends the shot
C25_Witness ==
    /\ pc = "capture"
    /\ isShooting
    /\ FastBalls # {}
    /\ \A b \in FastBalls : InPocket(b.pos)
    /\ \E b \in FastBalls : b.label = "red"
    /\ ~checkBallsMoving(checkPocketCollisions(St)).isShooting
    /\ checkBallsMoving(St).isShooting


\* ------------------------------------------------------------------------
\* C26
\* ------------------------------------------------------------------------
\* C26 as stated: in every state where a shot is in flight the forecast
\* holds no path points, no ghost ball and no deflection paths.  Violated:
\* neither the release nor a frame in flight empties the forecast.
C26_Original ==
    isShooting =>
        /\ trajectoryPreview.points = <<>>
        /\ trajectoryPreview.ghostBall = NULL
        /\ trajectoryPreview.collisionBalls = <<>>

\* C26, amended: while a shot is in flight the forecast is not drawn and no
\* step changes it: the step that fires the shot, the frames in flight and
\* the settle check leave the path points, the ghost ball and the
\* deflection paths of the last prediction before the shot, until the
\* first prediction after the shot has settled.
C26_ForecastIdleInFlight ==
    /\ [](isShooting => ~canShoot /\ ~drawsTrajectoryPreview(St))
    /\ [][(isShooting \/ isShooting') => trajectoryPreview' = trajectoryPreview]_vars

\* a frame in flight is about to pass the prediction by, the forecast of
\* the aim before the shot still in place
C26_Witness ==
    /\ pc = "predict"
    /\ isShooting
    /\ cueBall # NULL
    /\ Len(trajectoryPreview.points) > 0
    /\ trajectoryPreview.ghostBall # NULL
    /\ Len(trajectoryPreview.collisionBalls) = 2


\* ------------------------------------------------------------------------
\* C27
\* ------------------------------------------------------------------------
\* the squared length of the vector v
Length2(v) == v[1] * v[1] + v[2] * v[2]

\* C27: no normalisation of a prediction run divides by 0.  The direction
\* that a pass renormalises (dirLen) keeps the length it started with, since
\* a cushion only negates components, and that length is not 0; the vector
\* from the contact point to the centre of the struck ball (toTargetLen) is
\* not 0.
C27_NoZeroLength ==
    Forecasting =>
        \A run \in {PredictionRun(St)} :
            /\ Length2(DirStep(cue.angle)) > 0
            /\ \A k \in 1..Len(run.steps) :
                  /\ Length2(run.steps[k].dirTo) > 0
                  /\ Length2(run.steps[k].dirTo) = Length2(DirStep(cue.angle))
            /\ Length2(run.dir) > 0
            /\ run.ghostBall # NULL =>
                  Length2(<<run.ghostBall[1].targetBall.pos[1] * Sub - run.ghostBall[1].x,
                            run.ghostBall[1].targetBall.pos[2] * Sub - run.ghostBall[1].y>>) > 0

\* a run that meets a cushion head-on (the crossing component is the whole
\* direction), made after a frame whose run met a ball
C27_Witness ==
    /\ Forecasting
    /\ trajectoryPreview.ghostBall # NULL
    /\ \E run \in {PredictionRun(St)} : \E k \in 1..Len(run.steps) :
          /\ run.steps[k].dirFrom[1] = 0
          /\ CrossesY(run.steps[k].raw)
          /\ run.steps[k].dirTo = <<0, -run.steps[k].dirFrom[2]>>


\* ------------------------------------------------------------------------
\* C28
\* ------------------------------------------------------------------------
\* C28: in every state where no shot is in flight (none fired yet, or the
\* shot has settled) the cue ball's frictionAir is BALL_FRICTION_AIR.
\* Violated: shootCueBall sets it from the top/back spin and nothing sets it
\* back.
C28_ResistanceRestored ==
    ~isShooting /\ cueBall # NULL => cueBall[1].frictionAir = BALL_FRICTION_AIR


\* ------------------------------------------------------------------------
\* C29
\* ------------------------------------------------------------------------
\* both components of the spin of s lie in [-1, 1] (numerators over SpinDen)
SpinInRange(s) ==
    /\ -SpinDen <= s.spinControl.x /\ s.spinControl.x <= SpinDen
    /\ -SpinDen <= s.spinControl.y /\ s.spinControl.y <= SpinDen

\* C29: in every reachable state both spin components lie in [-1, 1], and
\* so they do after a press or a drag with the pointer at any position; the
\* C key sets both to 0.
C29_SpinBounded ==
    /\ SpinInRange(St)
    /\ \A m \in AimPressPoints \cup AimDragPoints : \A shift \in BOOLEAN :
          /\ SpinInRange(mousePressed(St, m))
          /\ SpinInRange(mouseDragged(St, m, shift))
    /\ \A seed \in Seeds :
          /\ keyPressed(St, "c", seed).spinControl.x = 0
          /\ keyPressed(St, "c", seed).spinControl.y = 0

\* a drag of the spin control with the pointer far outside it: the side
\* spin is held at -1
C29_Witness ==
    /\ spinControl.isDragging
    /\ pFar[1] - spinUiX < -SpinDen
    /\ spinControl.x = -SpinDen
    /\ spinControl.y # 0
    /\ mouseDragged(St, pFar, FALSE).spinControl = spinControl


\* ------------------------------------------------------------------------
\* C30
\* ------------------------------------------------------------------------
\* the release of the state s fires a shot
ReleaseFires(s) ==
    /\ s.cueBall # NULL
    /\ mouseReleased(s).cueBall[1].force = s.cueBall[1].force + 1

\* C30: a lock can be taken only on a cue ball that exists, so a lock that
\* is held while there is no cue ball was taken on one that has since been
\* removed; it never fires on a cue ball placed afterwards: with such a
\* lock held, a press at any point followed by a release fires no shot.
\* Violated: a capture leaves cue.isAiming and cue.pullBack as they are, the
\* press places a cue ball, and the release fires it with the old angle and
\* pull-back.
C30_LockFiresOwnBallOnly ==
    pc = "idle" /\ cueBall = NULL /\ cue.isAiming =>
        \A m \in SessionPoints : ~ReleaseFires(mousePressed(St, m))


\* ------------------------------------------------------------------------
\* C31: if the speed of every live ball eventually stays at or below the
\* stopping threshold, and frames keep being drawn, then a shot in flight is
\* always followed by a state out of flight (isShooting false, canShoot
\* true), whatever keys and pointer events come in between.
C31_FlightEnds ==
    <>[](~anyMoving(St)) => [](isShooting => <>(~isShooting /\ canShoot))

\* a shot has ended in mode 2 with the cue ball gone: the mode was switched
\* during the flight (the mode keys remove the cue ball), or the cue ball was
\* potted
C31_Witness ==
    /\ pc = "predict"
    /\ replaySystem.frames > 0 /\ ~replaySystem.recording
    /\ ~isShooting /\ canShoot
    /\ currentMode = 2
    /\ cueBall = NULL


\* ------------------------------------------------------------------------
\* C32: whenever the slow-motion replay is showing, no shot is in flight.
\* Violated: the pointer handlers do not look at showReplay, so an aim can be
\* locked, pulled back and released while the replay is showing; the shot is
\* fired under the replay, which ends at the next frame.
C32_NoFlightWhileReplay == replaySystem.showReplay => ~isShooting


\* ------------------------------------------------------------------------
\* the rack of the mode: no cue ball, RedCount reds, one ball of each colour
\* on its spot, no pull-back and no aim lock
Racked(s, mode) ==
    /\ s.currentMode = mode
    /\ s.cueBall = NULL /\ ~s.cueBallPlaced /\ s.world["cueBall"] = 0
    /\ Len(s.redBalls) = RedCount /\ s.world["red"] = RedCount
    /\ \A i \in 1..Len(s.redBalls) : s.redBalls[i].label = "red"
    /\ \A c \in ColourSet :
          /\ s.world[c] = 1
          /\ s.colouredBalls[c].label = c
          /\ s.colouredBalls[c].pos = spotPositions[c]
    /\ s.cue.pullBack = 0 /\ ~s.cue.isAiming

\* C33: setup leaves the rack of mode 1, and in every state of the session
\* each of the keys 1, 2, 3 leaves the rack of its mode: no cue ball, 15
\* reds, one ball of each of the six colours on its own spot, pull-back 0
\* and the aim unlocked.
C33_RackAfterSwitch ==
    /\ Racked(setup, 1)
    /\ \A mode \in 1..3, seed \in Seeds :
          Racked(keyPressed(St, <<"1", "2", "3">>[mode], seed), mode)

\* the keys find a cue ball with the aim locked on it, a red potted and the
\* black off its spot, in mode 2
C33_Witness ==
    /\ pc = "idle"
    /\ currentMode = 2
    /\ cueBall # NULL /\ cue.isAiming
    /\ Len(redBalls) < RedCount
    /\ colouredBalls["black"].pos # spotPositions["black"]


\* ------------------------------------------------------------------------
\* the session awaits placement in s: there is no cue ball, the aim is
\* unlocked without pull-back, and a press places a cue ball wherever the
\* placement rule allows one
AwaitsPlacement(s) ==
    /\ s.cueBall = NULL /\ ~s.cueBallPlaced /\ s.world["cueBall"] = 0
    /\ ~s.cue.isAiming /\ s.cue.pullBack = 0
    /\ \A m \in FlightPoints :
          mousePressed(s, m) = IF isInDZone(m) /\ ~isOverlappingBall(s, m)
                               THEN createCueBall(s, m) ELSE s

\* s and t differ at most in the cue ball and the aim
SameButCueBall(s, t) ==
    t = [s EXCEPT !.cueBall = t.cueBall, !.cueBallPlaced = t.cueBallPlaced,
                  !.world = [@ EXCEPT !["cueBall"] = t.world["cueBall"]],
                  !.cue = [@ EXCEPT !.isAiming = t.cue.isAiming,
                                    !.pullBack = t.cue.pullBack]]

\* C34: in every state, the R key removes the cue ball and leaves the
\* session awaiting placement, nothing else changed, when a cue ball exists
\* and no shot is in flight; in flight, or with no cue ball, it changes
\* nothing.
C34_ResetRule ==
    IF cueBall # NULL /\ ~isShooting
    THEN /\ AwaitsPlacement(keyPressed(St, "r", 1))
         /\ SameButCueBall(St, keyPressed(St, "r", 1))
    ELSE keyPressed(St, "r", 1) = St

\* R finds a cue ball at rest with the aim locked and pulled back, after a
\* shot
C34_Witness ==
    /\ pc = "idle"
    /\ cueBall # NULL /\ ~isShooting
    /\ cue.isAiming /\ cue.pullBack > 0
    /\ replaySystem.frames > 0


\* ------------------------------------------------------------------------
\* the largest number of passes: maxDistance / stepSize
MaxPasses == maxDistance \div stepSize

\* C35: after at most maxDistance / stepSize = 160 passes the loop of a
\* prediction run has ended (its condition fails or it broke at a ball: one
\* more pass would change nothing), every pass that did not break has added
\* stepSize to the distance marched, and the forecast holds one path point
\* per pass, at most 160.
C35_RunTerminates ==
    Forecasting =>
        \A run \in {PredictionRun(St)} :
            /\ MaxPasses * stepSize = maxDistance /\ MaxPasses = 160
            /\ run.broke \/ ~LoopCondition(run)
            /\ Pass(St, run) = run
            /\ Len(run.steps) <= MaxPasses
            /\ run.totalDist =
                  stepSize * (Len(run.steps) - (IF run.broke THEN 1 ELSE 0))
            /\ Len(run.points) = Len(run.steps)
            /\ calculateTrajectoryPreview(St).trajectoryPreview.points = run.points

\* a run that ends by the distance alone: 160 passes, no ball met, fewer
\* bounces than end the loop, and a cushion met on the way
C35_Witness ==
    /\ Forecasting
    /\ \E run \in {PredictionRun(St)} :
          /\ Len(run.points) = MaxPasses
          /\ ~run.broke
          /\ run.bounces > 0 /\ run.bounces <= maxBounces
          /\ run.totalDist = maxDistance


\* ------------------------------------------------------------------------
\* the cushions the step st was marched across
CushionsMet(st) ==
    {c \in {"left", "right", "top", "bottom"} :
        \/ c = "left" /\ st.raw[1] < insetLeft
        \/ c = "right" /\ st.raw[1] > insetRight
        \/ c = "top" /\ st.raw[2] < insetTop
        \/ c = "bottom" /\ st.raw[2] > insetBottom}

\* C36: a step marched across a cushion leaves the direction component
\* pointing away from that cushion (not negative after the left one, not
\* positive after the right one, likewise top and bottom), and no cushion is
\* met by two consecutive steps.
\* Violated: with the cue ball against a cushion, aimed along it, and side
\* spin bending the path toward it, every step is marched across that
\* cushion again and counted as a bounce.
C36_ReflectsIntoTable ==
    Forecasting =>
        \A run \in {PredictionRun(St)} : \A k \in 1..Len(run.steps) :
            \A st \in {run.steps[k]} :
                /\ "left" \in CushionsMet(st) => st.dirTo[1] >= 0
                /\ "right" \in CushionsMet(st) => st.dirTo[1] <= 0
                /\ "top" \in CushionsMet(st) => st.dirTo[2] >= 0
                /\ "bottom" \in CushionsMet(st) => st.dirTo[2] <= 0
                /\ k < Len(run.steps) =>
                      CushionsMet(st) \cap CushionsMet(run.steps[k + 1]) = {}


\* ------------------------------------------------------------------------
\* the scalar product of the vectors d and v
Dot(d, v) == d[1] * v[1] + d[2] * v[2]

\* C37: the ball of a recorded ghost collision is ahead of the cue ball: at
\* the contact point, the direction of the step that met it has a positive
\* component toward the centre of the struck ball.
\* Violated: with the cue ball touching a ball and aimed away from it, the
\* second root of lineCircleCollision is 0 and the ball behind the cue ball
\* is recorded, at the cue ball's own position.
C37_HitsAhead ==
    Forecasting =>
        \A run \in {PredictionRun(St)} :
            run.ghostBall # NULL =>
                \A st \in {run.steps[Len(run.steps)]} :
                    Dot(<<st.raw[1] - st.from[1], st.raw[2] - st.from[2]>>,
                        <<run.ghostBall[1].targetBall.pos[1] * Sub - run.ghostBall[1].x,
                          run.ghostBall[1].targetBall.pos[2] * Sub - run.ghostBall[1].y>>) > 0


\* ------------------------------------------------------------------------
\* the live balls after the step, but the colour c
OthersAfter(c) ==
    {redBalls'[i] : i \in 1..Len(redBalls')}
        \cup {colouredBalls'[d] : d \in ColourSet \ {c}}
        \cup {cueBall'[i] : i \in 1..Len(cueBall')}

\* C38: after a capture pass has respotted a coloured ball, no other live
\* ball has its centre nearer than one ball diameter to the centre of the
\* respotted ball.
\* Violated: the ball is put on its spot whatever lies there.
C38_RespotClear ==
    [][pc = "capture" =>
          \A c \in ColourSet :
              InPocket(colouredBalls[c].pos) =>
                  \A b \in OthersAfter(c) :
                      Dist2(b.pos, colouredBalls'[c].pos) >= ballDiameter * ballDiameter]_vars


\* ------------------------------------------------------------------------
\* C39
\* ------------------------------------------------------------------------
\* a step that fires a shot
Fired == ~isShooting /\ isShooting'

\* a frame step taken while a shot is in flight and recording is on
RecordingStep ==
    /\ pc = "idle" /\ pc' = "capture"
    /\ isShooting /\ replaySystem.recording

\* the buffer after one more frame: the newest frame is pushed, and the
\* oldest is dropped first when the buffer is full
Pushed ==
    IF replaySystem.frames = maxFrames
    THEN /\ replaySystem'.frames = maxFrames
         /\ replaySystem'.oldest = replaySystem.oldest + 1
    ELSE /\ replaySystem'.frames = replaySystem.frames + 1
         /\ replaySystem'.oldest = replaySystem.oldest

\* C39: the replay buffer never holds more than maxFrames frames; firing a
\* shot empties it; apart from that its contents change only on a frame step
\* taken while a shot is in flight and recording is on, which pushes one
\* frame after dropping the oldest one from a full buffer
C39_BufferBounded ==
    /\ [](replaySystem.frames <= maxFrames)
    /\ [][/\ Fired => replaySystem'.frames = 0
          /\ RecordingStep => Pushed
          /\ ~Fired /\ ~RecordingStep =>
                /\ replaySystem'.frames = replaySystem.frames
                /\ replaySystem'.oldest = replaySystem.oldest]_vars

\* the buffer is full and its oldest frame has been dropped
C39_Witness ==
    /\ pc = "capture"
    /\ isShooting /\ replaySystem.recording
    /\ replaySystem.frames = maxFrames
    /\ replaySystem.oldest > 1

====
